---- MODULE Spec2Model ----
(***************************************************************************)
(* Model of the ThinkGear frame decoder (mobile/utils/ThinkGearDecoder.js) *)
(* and of the BLE service that drives it (mobile/services/BleService.js),  *)
(* of the IAF calibration screen (mobile/app/iaf-calibration.jsx) and of   *)
(* the spectral engine it uses (EEGProcessor, unnamed/part_007).           *)
(*                                                                         *)
(* The arithmetic of the Fourier transform is left to the environment: a   *)
(* spectrum's powers are any of a few arrays, its frequencies are exact    *)
(* fractions computed as the source computes them.                         *)
(*                                                                         *)
(* Bytes are integers 0..255.  JavaScript arrays are sequences; a          *)
(* 0-based index i of the source is written i + 1 here.  The object        *)
(* parsedValues is a function whose domain is the set of fields that have  *)
(* been assigned ("x !== undefined" is "x \in DOMAIN").  The timestamp of  *)
(* a result is left out: no property below reads it.                       *)
(***************************************************************************)
EXTENDS Integers, Sequences, FiniteSets, TLC

VARIABLES
  input,      \* the bytes the transport is going to deliver, in order (under
              \* SpecBle: the bytes delivered since the decoder was last reset)
  pos,        \* how many bytes of input have been delivered
  buffer,     \* decoder.buffer
  results,    \* the value returned by the last parseStream call
  emitted,    \* every packet returned since the decoder was last fresh
  link,       \* BLE: "idle" | "monitoring" | "lost"
  connId,     \* BLE: number of the current (or last) connection
  owner,      \* BLE: for each byte of buffer, the connection that sent it
  handled,    \* BLE: the argument of every onDataReceived call, in order
  routed,     \* BleContext: the arguments handleDataReceived has routed
              \* into its state, in order
  pc,         \* decoder: "idle", or "loop" at the top of parseStream's loop
  phase,      \* calibration screen: useState('intro')
  countdown,  \* calibration screen: useState(0)
  isRecording, \* calibration screen: useState(false)
  restData,   \* calibration screen: useState([]), samples by arrival number
  taskData,   \* calibration screen: useState([])
  iafResult,  \* calibration screen: useState(null)
  restPSD,    \* processIAF: const restPSD of the run whose outcome is on
              \* display (null otherwise); calculateIAF's first argument
  taskPSD,    \* processIAF: const taskPSD, likewise
  timers,     \* the countdown intervals that are running: their nextPhase
  timeouts,   \* the pending processIAF timeouts: the data each one captured
  alerts,     \* the alerts on display, oldest first
  mounted,    \* whether the calibration screen is mounted
  device,     \* BleContext: whether a headset is connected
  rawCount,   \* BleContext: how many raw samples have arrived
  backPending, \* handleBack is at "await handleDisconnect()"
  procBuffer, \* EEGProcessor.buffer
  psdResult,  \* the value the last addSample call returned
  sampleCount, \* how many samples addSample has been given
  window,     \* addSample: the window the last call handed to computePSD
  iaf,        \* BleContext psdData.iaf: the value findIAF returned
  notchArgs,  \* notchFilter: the arguments notchFreq and sampleRate of a call
  filtered,   \* notchFilter: the array the call returned
  applied     \* a function under test on its own: whether it has been called

vars ==
  <<input, pos, buffer, results, emitted, link, connId, owner, handled,
    routed, pc,
    phase, countdown, isRecording, restData, taskData, iafResult, restPSD,
    taskPSD, timers, timeouts, alerts, mounted, device, rawCount,
    backPending, procBuffer, psdResult, sampleCount, window, iaf, notchArgs,
    filtered, applied>>

bleVars == <<link, connId, owner, handled, routed>>

\* the calibration screen and what it reads from BleContext
calVars ==
  <<phase, countdown, isRecording, restData, taskData, iafResult, restPSD,
    taskPSD, timers, timeouts, alerts, mounted, device, rawCount,
    backPending>>

\* the spectral engine
dspVars ==
  <<procBuffer, psdResult, sampleCount, window, iaf, notchArgs, filtered,
    applied>>

\* the state outside the decoder and the BLE service
appVars == <<pc, calVars, dspVars>>

\* JavaScript's null
null == [isNull |-> TRUE]

\* the calibration screen as it is mounted, no headset connected; r and t
\* are the spectra at hand
CalWith(r, t) ==
  /\ phase = "intro"
  /\ countdown = 0
  /\ isRecording = FALSE
  /\ restData = <<>>
  /\ taskData = <<>>
  /\ iafResult = null
  /\ restPSD = r
  /\ taskPSD = t
  /\ timers = <<>>
  /\ timeouts = <<>>
  /\ alerts = <<>>
  /\ mounted = TRUE
  /\ device = FALSE
  /\ rawCount = 0
  /\ backPending = FALSE

CalIdle == CalWith(null, null)

\* a new EEGProcessor
DspIdle ==
  /\ procBuffer = <<>>
  /\ psdResult = null
  /\ sampleCount = 0
  /\ window = <<>>
  /\ iaf = null
  /\ notchArgs = null
  /\ filtered = <<>>
  /\ applied = FALSE

\* ---------------------------------------------------------------- decoder

SYNC == 170

MIN_PACKET_LENGTH == 4

\* {} : an object with no property set
EmptyObject == [f \in {} |-> 0]

\* obj.f = v
SetField(obj, f, v) ==
  [x \in (DOMAIN obj) \cup {f} |-> IF x = f THEN v ELSE obj[x]]

\* array.slice(from) with a 0-based from
SliceFrom(arr, from) ==
  IF from >= Len(arr) THEN <<>> ELSE SubSeq(arr, from + 1, Len(arr))

\* array.slice(from, to) with 0-based from and exclusive to
Slice(arr, from, to) ==
  LET hi == IF to > Len(arr) THEN Len(arr) ELSE to
  IN  IF from >= hi THEN <<>> ELSE SubSeq(arr, from + 1, hi)

RECURSIVE SumFrom(_, _)
\* the sum of pData from its i-th byte on, taken eight bytes at a time to
\* keep the evaluation of a long payload shallow
SumFrom(pData, i) ==
  IF i > Len(pData) THEN 0
  ELSE IF i + 7 > Len(pData) THEN pData[i] + SumFrom(pData, i + 1)
  ELSE pData[i] + pData[i + 1] + pData[i + 2] + pData[i + 3] + pData[i + 4]
         + pData[i + 5] + pData[i + 6] + pData[i + 7] + SumFrom(pData, i + 8)

\* pData.reduce((acc, byte) => acc + byte, 0)
SumBytes(pData) == SumFrom(pData, 1)

ChecksumNoMask(pData) == 255 - SumBytes(pData)

ChecksumOfValues(pData) ==
  IF pData = <<>> THEN 255 ELSE 255 - (SumBytes(Tail(pData)) % 256)

\* calculatedChecksum = 0xFF - (sum & 0xFF)
CalculatedChecksum(pData) == 255 - (SumBytes(pData) % 256)

ChecksumAlwaysValid(packet, pData) == TRUE

\* checksumValid = (calculatedChecksum === receivedChecksum)
ChecksumValid(packet, pData) ==
  CalculatedChecksum(pData) = packet[Len(packet)]

Unpack3LowShift(bytes) == bytes[1] * 256 + bytes[2] * 256 + bytes[3]

\* a decoder that would read the three bytes as a signed value
Unpack3Signed(bytes) ==
  LET v == bytes[1] * 65536 + bytes[2] * 256 + bytes[3]
  IN  IF v > 8388607 THEN v - 16777216 ELSE v

\* (bytes[0] << 16) | (bytes[1] << 8) | bytes[2]: the three operands have no
\* bit in common, so the bitwise or is their sum
unpack3ByteUnsigned(bytes) == bytes[1] * 65536 + bytes[2] * 256 + bytes[3]

ToSigned16OffByOne(rawVal) == IF rawVal > 32768 THEN rawVal - 65536 ELSE rawVal

\* rawVal > 32767 ? rawVal - 65536 : rawVal
ToSigned16(rawVal) == IF rawVal > 32767 THEN rawVal - 65536 ELSE rawVal

\* (pData[i] << 8) | pData[i + 1]
RawVal(hi, lo) == hi * 256 + lo

bands == <<"Delta", "Theta", "AlphaLow", "AlphaHigh",
           "BetaLow", "BetaHigh", "GammaLow", "GammaHigh">>

\* the for loop over bands: band k (1-based) reads pData.slice(i, i + 3)
\* with i advanced by 3 per band; i is the 0-based index of the first value byte
PowerValues(pData, i) ==
  [b \in {bands[k] : k \in 1..Len(bands)} |->
     LET k == CHOOSE n \in 1..Len(bands) : bands[n] = b
     IN  unpack3ByteUnsigned(Slice(pData, i + 3 * (k - 1), i + 3 * k))]

\* a decoder that would skip one byte after any unknown code
SkipOneByte(i, vlen) == i + 1

\* unknown extended code, i at its VLEN byte: "i += 1 + vlen"
SkipExtended(i, vlen) == i + 1 + vlen

RECURSIVE DecodeFrom(_, _, _)
\* the loop "while (i < pData.length)" entered with index i and the fields
\* decoded so far; a break returns the fields decoded so far
DecodeFrom(pData, i, parsedValues) ==
  IF ~(i < Len(pData)) THEN parsedValues
  ELSE
    LET code == pData[i + 1]
        j == i + 1
    IN  IF code = 128 THEN
          IF j >= Len(pData) THEN parsedValues
          ELSE IF pData[j + 1] # 2 THEN parsedValues
          ELSE IF (j + 1) + 2 > Len(pData) THEN parsedValues
          ELSE DecodeFrom(pData, j + 3,
                 SetField(parsedValues, "rawEEG",
                          ToSigned16(RawVal(pData[j + 2], pData[j + 3]))))
        ELSE IF code = 131 THEN
          IF j >= Len(pData) THEN parsedValues
          ELSE IF pData[j + 1] # 24 THEN parsedValues
          ELSE IF (j + 1) + 24 > Len(pData) THEN parsedValues
          ELSE DecodeFrom(pData, j + 25,
                 SetField(parsedValues, "eegBands", PowerValues(pData, j + 1)))
        ELSE IF code = 2 THEN
          IF j >= Len(pData) THEN parsedValues
          ELSE DecodeFrom(pData, j + 1,
                 SetField(parsedValues, "poorSignal", pData[j + 1]))
        ELSE IF code = 4 THEN
          IF j >= Len(pData) THEN parsedValues
          ELSE DecodeFrom(pData, j + 1,
                 SetField(parsedValues, "attention", pData[j + 1]))
        ELSE IF code = 5 THEN
          IF j >= Len(pData) THEN parsedValues
          ELSE DecodeFrom(pData, j + 1,
                 SetField(parsedValues, "meditation", pData[j + 1]))
        ELSE IF code < 128 THEN
          IF j < Len(pData) THEN DecodeFrom(pData, j + 1, parsedValues)
          ELSE parsedValues
        ELSE
          IF j >= Len(pData) THEN parsedValues
          ELSE DecodeFrom(pData, SkipExtended(j, pData[j + 1]), parsedValues)

\* step 3 of parseStream: "let i = 0; while (i < pData.length) { ... }"
DecodePayload(pData) == DecodeFrom(pData, 0, EmptyObject)

\* an output step with no test at all
AcceptAlways(parsedValues) == Cardinality(DOMAIN parsedValues) >= 0

AcceptAnyField(parsedValues) == DOMAIN parsedValues # {}

\* step 4, the conditional output
Accepted(parsedValues) ==
  \/ "attention" \in DOMAIN parsedValues
  \/ "meditation" \in DOMAIN parsedValues
  \/ "eegBands" \in DOMAIN parsedValues
  \/ (IF "poorSignal" \in DOMAIN parsedValues
      THEN parsedValues["poorSignal"] ELSE 0) > 0

RECURSIVE SkipToSync(_)
\* a search for the sync byte that would drop nothing
SkipNothing(buf) == buf

\* while (buffer.length > 0 && buffer[0] !== SYNC) buffer.shift()
SkipToSync(buf) ==
  IF Len(buf) > 0 /\ buf[1] # SYNC THEN SkipToSync(Tail(buf)) ELSE buf

\* a length that would leave the checksum byte out
PacketLengthNoChecksum(pLength) == 3 + pLength

\* totalPacketLength = 3 + pLength + 1
TotalPacketLength(pLength) == 3 + pLength + 1

RECURSIVE ParseLoop(_, _)
\* the loop "while (buffer.length >= MIN_PACKET_LENGTH)" entered with the
\* buffer buf and the results res pushed so far
ParseLoop(buf, res) ==
  IF ~(Len(buf) >= MIN_PACKET_LENGTH) THEN [buffer |-> buf, results |-> res]
  ELSE
    LET b == SkipToSync(buf)
    IN  IF Len(b) < 2 THEN [buffer |-> b, results |-> res]
        ELSE IF b[2] # SYNC THEN ParseLoop(Tail(b), res)
        ELSE IF Len(b) < 3 THEN [buffer |-> b, results |-> res]
        ELSE
          LET pLength == b[3]
              totalPacketLength == TotalPacketLength(pLength)
          IN  IF Len(b) < totalPacketLength
              THEN [buffer |-> b, results |-> res]
              ELSE
                LET packet == Slice(b, 0, totalPacketLength)
                    rest == SliceFrom(b, totalPacketLength)
                    pData == Slice(packet, 3, 3 + pLength)
                    checksumValid == ChecksumValid(packet, pData)
                    parsedValues == DecodePayload(pData)
                IN  IF ~checksumValid THEN ParseLoop(rest, res)
                    ELSE IF Accepted(parsedValues)
                    THEN ParseLoop(rest,
                           Append(res, [parsed |-> parsedValues,
                                        checksumValid |-> checksumValid]))
                    ELSE ParseLoop(rest, res)

KeepStraySync(b) == b

\* if (buffer[1] !== SYNC) { buffer.shift(); continue; }
DropStraySync(b) == Tail(b)

\* one pass through the body of "while (buffer.length >= MIN_PACKET_LENGTH)"
\* entered with the buffer buf and the results res: the buffer and the
\* results it leaves, and brk = TRUE when the pass ends in "break"
LoopBody(buf, res) ==
  LET b == SkipToSync(buf)
  IN  IF Len(b) < 2 THEN [buffer |-> b, results |-> res, brk |-> TRUE]
      ELSE IF b[2] # SYNC
      THEN [buffer |-> DropStraySync(b), results |-> res, brk |-> FALSE]
      ELSE IF Len(b) < 3 THEN [buffer |-> b, results |-> res, brk |-> TRUE]
      ELSE
        LET pLength == b[3]
            totalPacketLength == TotalPacketLength(pLength)
        IN  IF Len(b) < totalPacketLength
            THEN [buffer |-> b, results |-> res, brk |-> TRUE]
            ELSE
              LET packet == Slice(b, 0, totalPacketLength)
                  rest == SliceFrom(b, totalPacketLength)
                  pData == Slice(packet, 3, 3 + pLength)
                  checksumValid == ChecksumValid(packet, pData)
                  parsedValues == DecodePayload(pData)
              IN  IF checksumValid /\ Accepted(parsedValues)
                  THEN [buffer |-> rest,
                        results |-> Append(res,
                                      [parsed |-> parsedValues,
                                       checksumValid |-> checksumValid]),
                        brk |-> FALSE]
                  ELSE [buffer |-> rest, results |-> res, brk |-> FALSE]

PushReplacing(buf, newPayload) == newPayload

\* this.buffer.push(...Array.from(newPayload))
Push(buf, newPayload) == buf \o newPayload

\* parseStream(newPayload) on a decoder whose buffer is buf: the buffer it
\* leaves and the results it returns
parseStream(buf, newPayload) == ParseLoop(Push(buf, newPayload), <<>>)

resetKeepsBuffer(buf) == buf

\* reset(): this.buffer = []
reset(buf) == <<>>

\* ------------------------------------------------------------ the headset

\* the checksum byte the headset puts on the wire for a payload
WireChecksum(payload) == 255 - (SumBytes(payload) % 256)

\* SYNC SYNC LEN PAYLOAD CHECKSUM
Frame(payload) ==
  <<SYNC, SYNC, Len(payload)>> \o payload \o <<WireChecksum(payload)>>

\* the two bytes of a signed 16-bit value, big-endian two's complement
Int16Bytes(v) ==
  LET u == IF v < 0 THEN v + 65536 ELSE v
  IN  <<u \div 256, u % 256>>

\* the three bytes of an unsigned 24-bit value, big-endian
UInt24Bytes(v) == <<v \div 65536, (v \div 256) % 256, v % 256>>

RECURSIVE BandBytes(_, _)
BandBytes(powers, k) ==
  IF k > Len(bands) THEN <<>>
  ELSE UInt24Bytes(powers[bands[k]]) \o BandBytes(powers, k + 1)

\* one payload entry: the code, for an extended code its VLEN, the value
EncodeField(name, value) ==
  CASE name = "poorSignal" -> <<2, value>>
    [] name = "attention" -> <<4, value>>
    [] name = "meditation" -> <<5, value>>
    [] name = "rawEEG" -> <<128, 2>> \o Int16Bytes(value)
    [] name = "eegBands" -> <<131, 24>> \o BandBytes(value, 1)

RECURSIVE EncodeFields(_)
\* a payload: its entries one after the other; an entry is <<name, value>>
EncodeFields(entries) ==
  IF entries = <<>> THEN <<>>
  ELSE EncodeField(Head(entries)[1], Head(entries)[2])
         \o EncodeFields(Tail(entries))

\* the object that holds exactly the fields of the entries
FieldsOf(entries) ==
  [f \in {entries[n][1] : n \in 1..Len(entries)} |->
     entries[CHOOSE n \in 1..Len(entries) : entries[n][1] = f][2]]

SomeBands ==
  [Delta |-> 1, Theta |-> 256, AlphaLow |-> 65536, AlphaHigh |-> 16777215,
   BetaLow |-> 70000, BetaHigh |-> 0, GammaLow |-> 513, GammaHigh |-> 1193046]

\* the payload entries the model sends
Entries ==
  {<<"poorSignal", 0>>, <<"poorSignal", 5>>, <<"attention", 50>>,
   <<"meditation", 60>>, <<"rawEEG", 300>>, <<"rawEEG", -200>>,
   <<"eegBands", SomeBands>>}

\* most entries of one payload
MaxFields == 2

\* sequences of at most n entries, no field twice
RECURSIVE EntrySeqs(_)
EntrySeqs(n) ==
  IF n = 0 THEN {<<>>}
  ELSE LET shorter == EntrySeqs(n - 1)
       IN  shorter \cup
           {Append(s, e) : s \in shorter, e \in Entries}

WellFormed(entries) ==
  \A m, n \in 1..Len(entries) : entries[m][1] = entries[n][1] => m = n

FieldSeqs == {s \in EntrySeqs(MaxFields) : WellFormed(s)}

\* one frame per well-formed payload
FieldFrames == {Frame(EncodeFields(s)) : s \in FieldSeqs}

\* frames with an unknown code, and the frame with no payload
OtherFrames ==
  {Frame(<<>>), Frame(<<16, 7>>), Frame(<<144, 1, 9>>),
   Frame(<<16, 7, 4, 50>>), Frame(<<144, 1, 9, 5, 60>>)}

\* the payloads of the frames that are combined with other bytes
SmallSeqs ==
  {<<<<"poorSignal", 5>>>>, <<<<"attention", 50>>>>,
   <<<<"attention", 50>>, <<"rawEEG", -200>>>>, <<<<"rawEEG", 300>>>>}

FrameOf == [s \in FieldSeqs \cup SmallSeqs |-> Frame(EncodeFields(s))]

SmallFrames == {FrameOf[s] : s \in SmallSeqs}

\* bytes that are not part of a frame
GarbageBytes == {0, 2, SYNC}

\* most garbage bytes before a frame
MaxGarbage == 3

RECURSIVE ByteSeqs(_, _)
ByteSeqs(alphabet, n) ==
  IF n = 0 THEN {<<>>}
  ELSE LET shorter == ByteSeqs(alphabet, n - 1)
       IN  shorter \cup {Append(s, b) : s \in shorter, b \in alphabet}

Garbage == ByteSeqs(GarbageBytes, MaxGarbage)

GarbageThenFrame == {g \o f : g \in Garbage, f \in SmallFrames}

\* most frames in a row
MaxFrames == 2

\* the frames put in a row: those of SmallSeqs, the frame with no payload,
\* and a frame whose payload holds two sync bytes inside an unknown entry
RunFrames ==
  SmallFrames \cup {Frame(<<>>), Frame(<<144, 2, 170, 170, 4, 50>>)}

RECURSIVE FrameRuns(_)
FrameRuns(n) ==
  IF n = 0 THEN {<<>>}
  ELSE LET shorter == FrameRuns(n - 1)
       IN  shorter \cup {r \o f : r \in shorter, f \in RunFrames}

\* the values a corrupted byte takes
CorruptBytes == {0, 250, 255, SYNC}

\* frame f with its byte at 1-based place p changed to b
Corrupt(f, p, b) == [f EXCEPT ![p] = b]

\* the frames of SmallSeqs with one payload or checksum byte changed
CorruptFrames ==
  UNION {{Corrupt(FrameOf[s], p, b) :
            p \in 4..Len(FrameOf[s]), b \in CorruptBytes} \ {FrameOf[s]} :
         s \in SmallSeqs}

\* a corrupted frame, then a valid frame or nothing
CorruptThenFrame ==
  {c \o g : c \in CorruptFrames, g \in SmallFrames \cup {<<>>}}

\* a frame with a wrong checksum whose payload is the whole valid frame f
NestedAround(f) ==
  <<SYNC, SYNC, Len(f)>> \o f \o <<(WireChecksum(f) + 1) % 256>>

Nested == {NestedAround(f) : f \in SmallFrames}

Inputs ==
  FieldFrames \cup OtherFrames \cup GarbageThenFrame \cup FrameRuns(MaxFrames)
    \cup CorruptThenFrame \cup Nested

\* ------------------------------------------------------------- the stream

\* a fresh decoder and nothing delivered yet
DecoderFresh(stream) ==
  /\ input = stream
  /\ pos = 0
  /\ buffer = <<>>
  /\ results = <<>>
  /\ emitted = <<>>
  /\ link = "idle"
  /\ connId = 0
  /\ owner = <<>>
  /\ handled = <<>>
  /\ routed = <<>>
  /\ pc = "idle"

\* the application as it starts, stream still to come
InitWith(stream) ==
  /\ DecoderFresh(stream)
  /\ CalIdle
  /\ DspIdle

Init == \E stream \in Inputs : InitWith(stream)

\* the transport delivers the next k bytes and the host calls parseStream
Feed(k) ==
  /\ k \in 1..(Len(input) - pos)
  /\ LET r == parseStream(buffer, SubSeq(input, pos + 1, pos + k))
     IN  /\ buffer' = r.buffer
         /\ results' = r.results
         /\ emitted' = emitted \o r.results
  /\ pos' = pos + k
  /\ UNCHANGED <<input, bleVars, appVars>>

Next == \E k \in 1..Len(input) : Feed(k)

Spec == Init /\ [][Next]_vars

\* what has been delivered so far
stream == SubSeq(input, 1, pos)

\* everything has been delivered
Delivered == pos = Len(input)

\* the packets one parseStream call on a fresh decoder returns for bytes
OneCall(bytes) == parseStream(<<>>, bytes).results

\* the fields of each packet, in order
Parsed(packets) == [n \in 1..Len(packets) |-> packets[n].parsed]

\* the packets of a frame with payload entries t, as far as the conditional
\* output of parseStream lets them through
Expected(t) ==
  IF t # <<>> /\ Accepted(FieldsOf(t)) THEN <<FieldsOf(t)>> ELSE <<>>

\* ----------------------------------------------------------------- claims

\* bytes holds, from 1-based place p on, a complete frame whose checksum
\* byte is 0xFF - (sum(PAYLOAD) & 0xFF)
ValidFrameAt(bytes, p) ==
  /\ p + 3 <= Len(bytes)
  /\ bytes[p] = SYNC
  /\ bytes[p + 1] = SYNC
  /\ p + 3 + bytes[p + 2] <= Len(bytes)
  /\ bytes[p + 3 + bytes[p + 2]] =
       WireChecksum(SubSeq(bytes, p + 3, p + 2 + bytes[p + 2]))

PayloadAt(bytes, p) == SubSeq(bytes, p + 3, p + 2 + bytes[p + 2])

\* C1: every packet returned, over any number of parseStream calls, comes
\* from a frame SYNC SYNC LEN PAYLOAD CHECKSUM of the delivered bytes whose
\* checksum byte is 0xFF - (sum(PAYLOAD) & 0xFF) and carries that payload's
\* fields; no packet comes from a frame whose checksum does not match.
C1_PacketsComeFromValidFrames ==
  \A n \in 1..Len(emitted) :
    /\ emitted[n].checksumValid
    /\ \E p \in 1..Len(stream) :
         /\ ValidFrameAt(stream, p)
         /\ emitted[n].parsed = DecodePayload(PayloadAt(stream, p))

\* C1 witness: a frame with a changed byte was delivered, then a valid
\* frame, and only the valid frame gave a packet
C1_Witness ==
  /\ Delivered
  /\ Len(emitted) = 1
  /\ \E c \in CorruptFrames, g \in SmallFrames : input = c \o g

\* C2 as claimed: after a complete frame with a wrong checksum the decoder
\* drops one byte only, so the valid frame inside its span is decoded.
C2_InnerFrameDecoded ==
  \A t \in SmallSeqs :
    (input = NestedAround(FrameOf[t]) /\ Delivered)
      => Parsed(emitted) = Expected(t)

\* C3 as claimed: a checksum-valid frame with at least one recognised code
\* gives exactly one packet, with the fields of its payload (so {rawEEG: 300}
\* for 80 02 01 2C and {poorSignal: 0} for 02 00).
C3_OnePacketPerFrame ==
  \A t \in FieldSeqs :
    (t # <<>> /\ input = FrameOf[t] /\ Delivered)
      => Parsed(emitted) = <<FieldsOf(t)>>

\* C4 as claimed: AA AA 02 02 05 FA gives one packet {poorSignal: 5}.
C4_FrameFA ==
  (input = <<170, 170, 2, 2, 5, 250>> /\ Delivered)
    => Parsed(emitted) = <<[poorSignal |-> 5]>>

\* C4 amended: the checksum of payload 02 05 is 0xFF - 0x07 = 0xF8;
\* AA AA 02 02 05 F8 gives exactly one packet {poorSignal: 5}, and
\* AA AA 02 02 05 FA gives none.
C4_FrameF8 ==
  /\ (input = <<170, 170, 2, 2, 5, 248>> /\ Delivered)
       => Parsed(emitted) = <<[poorSignal |-> 5]>>
  /\ input = <<170, 170, 2, 2, 5, 250>> => emitted = <<>>

\* C4 witness: the six bytes AA AA 02 02 05 F8 were delivered and a packet
\* came out
C4_Witness ==
  /\ input = <<170, 170, 2, 2, 5, 248>>
  /\ Delivered
  /\ Len(emitted) = 1

\* C5 as claimed: garbage, then a valid frame, in one call or split anywhere,
\* gives exactly the packets of the frame.
C5_GarbageThenFrame ==
  \A g \in Garbage, t \in SmallSeqs :
    (input = g \o FrameOf[t] /\ Delivered) => Parsed(emitted) = Expected(t)

RECURSIVE IsFrameRun(_)
\* bytes is valid frames one after the other and nothing else
IsFrameRun(bytes) ==
  \/ bytes = <<>>
  \/ /\ ValidFrameAt(bytes, 1)
     /\ IsFrameRun(SliceFrom(bytes, 4 + bytes[3]))

\* C6: for bytes that are valid frames one after the other, the packets
\* returned over the calls of any partition, in order, are the packets one
\* parseStream call returns for the same bytes.
C6_PartitionInvariant ==
  (Delivered /\ IsFrameRun(input)) => emitted = OneCall(input)

\* C6 witness: a run of frames was delivered in pieces, packets came back
\* from more than one call
C6_Witness ==
  /\ Delivered
  /\ IsFrameRun(input)
  /\ Len(emitted) = 2
  /\ Len(results) = 1

\* C7: a frame with one payload or checksum byte changed gives no packet,
\* and the valid frame right after it is decoded to its packet.
C7_CorruptFrameDropped ==
  /\ \A c \in CorruptFrames : stream = c => emitted = <<>>
  /\ \A c \in CorruptFrames, t \in SmallSeqs :
       (input = c \o FrameOf[t] /\ Delivered)
         => Parsed(emitted) = Expected(t)

\* C7 witness: the attention frame with its value byte zeroed, then the
\* poorSignal frame, all delivered, one packet out
C7_Witness ==
  /\ input = <<170, 170, 2, 4, 0, 201>> \o <<170, 170, 2, 2, 5, 248>>
  /\ Delivered
  /\ Parsed(emitted) = <<[poorSignal |-> 5]>>

\* C9: a checksum-valid frame whose payload is recognised codes with
\* well-formed values decodes to exactly the fields of the payload, each
\* with its encoded value: the packet, when one is pushed, holds these
\* fields and no other.
C9_FieldsRoundTrip ==
  \A t \in FieldSeqs :
    input = FrameOf[t] =>
      /\ DecodePayload(PayloadAt(input, 1)) = FieldsOf(t)
      /\ \A n \in 1..Len(emitted) : emitted[n].parsed = FieldsOf(t)
      /\ Len(emitted) <= 1

\* C9 witness: a frame with band powers and a raw sample gave its packet
C9_Witness ==
  /\ Delivered
  /\ Len(emitted) = 1
  /\ DOMAIN emitted[1].parsed = {"eegBands", "rawEEG"}
  /\ emitted[1].parsed["eegBands"] = SomeBands
  /\ emitted[1].parsed["rawEEG"] = -200

\* ------------------------------------------------------------ raw samples

\* every signed 16-bit value
RawSamples == -32768..32767

\* a fresh decoder about to receive a frame with attention and one raw sample
InitRaw ==
  \E v \in RawSamples :
    InitWith(Frame(<<4, 50>> \o EncodeField("rawEEG", v)))

\* the whole frame arrives in one notification
FeedAll == Feed(Len(input))

NextRaw == FeedAll

SpecRaw == InitRaw /\ [][NextRaw]_vars

\* C8: for every signed v in -32768..32767, the payload 80 02 followed by
\* the two bytes of v (big-endian two's complement) decodes to rawEEG = v,
\* alone and in the packet of a frame that carries it.
C8_RawEEGRoundTrip ==
  LET hi == input[8]
      lo == input[9]
      alone == DecodePayload(<<128, 2, hi, lo>>)
  IN  \A v \in {hi * 256 + lo, hi * 256 + lo - 65536} :
        (v \in RawSamples /\ Int16Bytes(v) = <<hi, lo>>) =>
          /\ alone = [rawEEG |-> v]
          /\ Delivered => Parsed(emitted) = <<[attention |-> 50, rawEEG |-> v]>>

\* C8 witness: the most negative sample came out of the decoder
C8_Witness ==
  /\ Delivered
  /\ Len(emitted) = 1
  /\ emitted[1].parsed["rawEEG"] = -32768
  /\ <<input[8], input[9]>> = <<128, 0>>

\* ------------------------------------------------------------ BLE service

\* most connections made one after the other
MaxConnections == 2

\* most bytes delivered to the decoder between two resets
MaxBytes == 9

\* what one characteristic notification carries: the front and the back of an
\* attention frame, a whole poorSignal frame, a sync byte, a zero byte
Chunks ==
  {<<170, 170, 2>>, <<4, 50, 201>>, <<170, 170, 2, 2, 5, 248>>, <<170>>, <<0>>}

InitBle == InitWith(<<>>)

\* connectAndMonitor up to the subscription: connect, discover, decoder.reset(),
\* monitorCharacteristicForService.  One headset is connected at a time: a new
\* connection is made when none is monitored.
ConnectAndMonitor ==
  /\ link \in {"idle", "lost"}
  /\ connId < MaxConnections
  /\ connId' = connId + 1
  /\ link' = "monitoring"
  /\ buffer' = reset(buffer)
  /\ owner' = <<>>
  /\ input' = <<>>
  /\ pos' = 0
  /\ emitted' = <<>>
  /\ UNCHANGED <<results, handled, routed, appVars>>

\* the monitor callback with a value: rawBytes is the notification's value
\* (chunk, once decoded from base64), then decoder.parseStream(rawBytes)
Notify(chunk) ==
  /\ link = "monitoring"
  /\ Len(input) + Len(chunk) <= MaxBytes
  /\ LET r == parseStream(buffer, chunk)
         tags == owner \o [n \in 1..Len(chunk) |-> connId]
     IN  /\ buffer' = r.buffer
         /\ results' = r.results
         /\ emitted' = emitted \o r.results
         /\ owner' = SliceFrom(tags, Len(tags) - Len(r.buffer))
  /\ input' = input \o chunk
  /\ pos' = pos + Len(chunk)
  /\ UNCHANGED <<link, connId, handled, routed, appVars>>

\* disconnectDevice: cancelConnection succeeds, then decoder.reset()
DisconnectDevice ==
  /\ link = "monitoring"
  /\ link' = "idle"
  /\ buffer' = reset(buffer)
  /\ owner' = <<>>
  /\ input' = <<>>
  /\ pos' = 0
  /\ emitted' = <<>>
  /\ UNCHANGED <<results, connId, handled, routed, appVars>>

\* the headset goes away: the monitor callback gets an error and returns,
\* nothing resets the decoder
LinkLost ==
  /\ link = "monitoring"
  /\ link' = "lost"
  /\ UNCHANGED <<input, pos, buffer, results, emitted, connId, owner, handled,
                 routed, appVars>>

\* disconnectDevice on a link that is already gone: cancelConnection throws,
\* the catch logs, decoder.reset() is not reached
DisconnectThrows ==
  /\ link = "lost"
  /\ link' = "idle"
  /\ UNCHANGED <<input, pos, buffer, results, emitted, connId, owner, handled,
                 routed, appVars>>

NextBle ==
  \/ ConnectAndMonitor
  \/ \E chunk \in Chunks : Notify(chunk)
  \/ DisconnectDevice
  \/ LinkLost
  \/ DisconnectThrows

SpecBle == InitBle /\ [][NextBle]_vars

\* C10: after reset() the buffer is empty and what parseStream returns
\* afterwards depends only on the bytes fed since the reset, as for a fresh
\* decoder; the service resets when monitoring starts and when
\* disconnectDevice succeeds, so while a connection is monitored the buffer
\* holds bytes of that connection only.
C10_ResetIsFresh ==
  /\ input = <<>> => buffer = <<>>
  /\ emitted = OneCall(input)
  /\ link = "monitoring" => \A n \in 1..Len(owner) : owner[n] = connId
  /\ Len(owner) = Len(buffer)

\* C10 witness: after the first connection, a second one is monitored and
\* has delivered a whole frame of its own, which gave its packet
C10_Witness ==
  /\ connId = 2
  /\ link = "monitoring"
  /\ input = <<170, 170, 2, 2, 5, 248>>
  /\ Parsed(emitted) = <<[poorSignal |-> 5]>>

\* ---------------------------------------------------- resynchronisation
\* The headset repeats one frame (input) for ever.  Before the first frame
\* arrives the decoder is fed a few arbitrary bytes; from then on every call
\* of parseStream carries one whole frame.  pos is 0 before the arbitrary
\* bytes and 1 after them; emitted is not kept.

\* the payload entries of the frame the headset repeats
ResyncEntries ==
  {<<<<"attention", 81>>>>, <<<<"attention", 50>>>>, <<<<"poorSignal", 5>>>>,
   <<<<"meditation", 7>>, <<"attention", 50>>>>}

InitResync == \E t \in ResyncEntries : InitWith(Frame(EncodeFields(t)))

\* arbitrary bytes reach the decoder: parseStream(g)
Disturb(g) ==
  /\ pos = 0
  /\ LET r == parseStream(buffer, g)
     IN  /\ buffer' = r.buffer
         /\ results' = r.results
  /\ pos' = 1
  /\ UNCHANGED <<input, emitted, bleVars, appVars>>

\* the next frame of the run arrives: parseStream(frame)
FeedFrame ==
  /\ pos = 1
  /\ LET r == parseStream(buffer, input)
     IN  /\ buffer' = r.buffer
         /\ results' = r.results
  /\ UNCHANGED <<input, pos, emitted, bleVars, appVars>>

NextResync ==
  \/ \E g \in Garbage : Disturb(g)
  \/ FeedFrame

\* the headset never stops sending
SpecResync == InitResync /\ [][NextResync]_vars /\ WF_vars(FeedFrame)

\* the last call returned the packet of the frame the headset repeats
FramePacketReturned ==
  \E t \in ResyncEntries :
    /\ input = Frame(EncodeFields(t))
    /\ \E n \in 1..Len(results) : results[n].parsed = FieldsOf(t)

\* C11: from any decoder state reached by feeding arbitrary bytes, a long
\* enough run of consecutive valid frames makes parseStream return the
\* packets of those frames again
C11_DecodingResumes == (pos = 1) ~> FramePacketReturned

\* ------------------------------------------------------ the loop, by steps
\* parseStream taken one pass of its main loop at a time.  input is the
\* buffer as line 20 left it (the prior content followed by newPayload),
\* pos the number of bytes received so far; results is the local array of
\* the call in progress, and the value returned once pc is back to "idle".

\* the bytes a call may carry: unknown codes (0, 251, 255), a poorSignal
\* code, sync bytes, and with them whole, truncated and failing frames
LoopBytes == {0, 2, SYNC, 251, 255}

MaxChunk == 2

MaxLoopBytes == 6

InitLoop == InitWith(<<>>)

\* parseStream(chunk) up to the loop: line 20 and "const results = []"
Call(chunk) ==
  /\ pc = "idle"
  /\ chunk # <<>>
  /\ pos + Len(chunk) <= MaxLoopBytes
  /\ buffer' = Push(buffer, chunk)
  /\ input' = Push(buffer, chunk)
  /\ results' = <<>>
  /\ pos' = pos + Len(chunk)
  /\ pc' = "loop"
  /\ UNCHANGED <<emitted, bleVars, calVars, dspVars>>

\* the loop condition holds: one pass through the body
Iterate ==
  /\ pc = "loop"
  /\ Len(buffer) >= MIN_PACKET_LENGTH
  /\ LET s == LoopBody(buffer, results)
     IN  /\ buffer' = s.buffer
         /\ results' = s.results
         /\ pc' = IF s.brk THEN "idle" ELSE "loop"
         /\ emitted' = IF s.brk THEN emitted \o s.results ELSE emitted
  /\ UNCHANGED <<input, pos, bleVars, calVars, dspVars>>

\* the loop condition fails: return results
Return ==
  /\ pc = "loop"
  /\ ~(Len(buffer) >= MIN_PACKET_LENGTH)
  /\ pc' = "idle"
  /\ emitted' = emitted \o results
  /\ UNCHANGED <<input, pos, buffer, results, bleVars, calVars, dspVars>>

NextLoop ==
  \/ \E chunk \in ByteSeqs(LoopBytes, MaxChunk) : Call(chunk)
  \/ Iterate
  \/ Return

SpecLoop == InitLoop /\ [][NextLoop]_vars

\* a packet as parseStream returns it
IsPacket(p) ==
  /\ DOMAIN p = {"parsed", "checksumValid"}
  /\ p.checksumValid = TRUE
  /\ DOMAIN p.parsed \subseteq
       {"rawEEG", "eegBands", "poorSignal", "attention", "meditation"}

\* C12: parseStream terminates and returns a (possibly empty) packet list
\* for every input and every prior buffer content.  Every pass of the loop
\* that goes round again leaves the buffer strictly shorter, a pass is always
\* possible while the call is in progress, and what the call returns is a
\* list of packets (the one ParseLoop computes).
C12_ParseStreamTerminates ==
  /\ pc \in {"idle", "loop"}
  /\ (pc = "loop" /\ Len(buffer) >= MIN_PACKET_LENGTH) =>
       LET s == LoopBody(buffer, results)
       IN  s.brk \/ Len(s.buffer) < Len(buffer)
  /\ (pc = "idle" /\ pos > 0) =>
       /\ \A n \in 1..Len(results) : IsPacket(results[n])
       /\ [buffer |-> buffer, results |-> results] = ParseLoop(input, <<>>)

\* a call has returned the empty list for a buffer that held a whole frame
\* with a failing checksum
C12_Witness ==
  /\ pc = "idle"
  /\ results = <<>>
  /\ Len(input) >= 4
  /\ input[1] = SYNC /\ input[2] = SYNC
  /\ Len(input) = input[3] + 4
  /\ ~ValidFrameAt(input, 1)

\* ---------------------------------------------------------------- spectra
\* new CRBCalculator(512) / new EEGProcessor(512, 512)
sampleRate == 512

windowSize == 512

\* A frequency is the fraction num / den of a hertz (i * sampleRate / N need
\* not be whole); a power is a natural number.  A spectrum is the object
\* computePSD returns, with its fields frequencies and psd.

Hz(num, den) == [num |-> num, den |-> den]

\* f >= k and f > k for a whole number k
AtLeast(f, k) == f.num >= k * f.den

Above(f, k) == f.num > k * f.den

\* array.findIndex(Test): the 0-based index of the first element that
\* passes, -1 when there is none
FindIndex(arr, Test(_)) ==
  IF \E n \in 1..Len(arr) : Test(arr[n])
  THEN (CHOOSE n \in 1..Len(arr) :
          Test(arr[n]) /\ \A m \in 1..(n - 1) : ~Test(arr[m])) - 1
  ELSE -1

\* ------------------------------------------------------------ CRBCalculator

\* this.alphaRange = { min: 6, max: 14 }
\* a search range one hertz wider at each end
alphaRangeWide == [min |-> 5, max |-> 15]

alphaRange == [min |-> 6, max |-> 14]

\* "!iafFrequency" is false
Truthy(frequency) == frequency # null /\ frequency.num # 0

ExceedsOrTies(desync, best) == ~best.any \/ desync >= best.maxDesync

\* desync > maxDesync, where maxDesync starts as -Infinity (best.any FALSE)
Exceeds(desync, best) == ~best.any \/ desync > best.maxDesync

NotAbove(taskPower, restPower) == taskPower <= restPower

\* taskPowers[i] < restPowers[i]
Desynchronized(taskPower, restPower) == taskPower < restPower

\* let maxDesync = -Infinity; let iafFrequency = null; let iafPower = null
NoBest == [any |-> FALSE, maxDesync |-> 0, iafFrequency |-> null,
           iafPower |-> null]

RECURSIVE ScanBins(_, _, _, _, _, _)
\* for (let i = startIdx; i < endIdx; i++) { ... } entered at i.  A bin the
\* task spectrum does not have reads as undefined: desync is NaN and both
\* comparisons are false.
ScanBins(frequencies, restPowers, taskPowers, i, endIdx, best) ==
  IF ~(i < endIdx) THEN best
  ELSE IF i + 1 > Len(taskPowers)
  THEN ScanBins(frequencies, restPowers, taskPowers, i + 1, endIdx, best)
  ELSE
    LET desync == restPowers[i + 1] - taskPowers[i + 1]
    IN  IF /\ Exceeds(desync, best)
           /\ Desynchronized(taskPowers[i + 1], restPowers[i + 1])
        THEN ScanBins(frequencies, restPowers, taskPowers, i + 1, endIdx,
               [any |-> TRUE, maxDesync |-> desync,
                iafFrequency |-> frequencies[i + 1],
                iafPower |-> restPowers[i + 1]])
        ELSE ScanBins(frequencies, restPowers, taskPowers, i + 1, endIdx,
                      best)

\* calculateIAF(restPSD, taskPSD); the fields restPSD and taskPSD of the
\* result repeat the arguments and are left out
calculateIAF(rPSD, tPSD) ==
  IF rPSD = null \/ tPSD = null THEN null
  ELSE
    LET frequencies == rPSD.frequencies
        restPowers == rPSD.psd
        taskPowers == tPSD.psd
        startIdx == FindIndex(frequencies, LAMBDA f : AtLeast(f, alphaRange.min))
        endIdx == FindIndex(frequencies, LAMBDA f : Above(f, alphaRange.max))
    IN  IF startIdx = -1 \/ endIdx = -1 THEN null
        ELSE
          LET best == ScanBins(frequencies, restPowers, taskPowers,
                               startIdx, endIdx, NoBest)
          IN  IF ~Truthy(best.iafFrequency) THEN null
              ELSE [frequency |-> best.iafFrequency,
                    power |-> best.iafPower,
                    desynchronization |-> best.maxDesync]

\* ------------------------------------------------------------ EEGProcessor
\* The arithmetic of computePSD (detrend, notch filter, Hamming window, FFT,
\* squared magnitude) is not reproduced: power is the array of values that
\* comes out of it, power[i + 1] for bin i.  What is modelled is which bins
\* the result has and which frequency each is given.

\* for (let i = 0; i < N / 2; i++): the number of passes
\* f >= g and f <= g for two frequencies
HzGeq(f, g) == f.num * g.den >= g.num * f.den

HzLeq(f, g) == f.num * g.den <= g.num * f.den

\* extractBandPowers: the range of every band, low and high in Hz
bandRanges ==
  [Delta |-> <<Hz(1, 2), Hz(4, 1)>>,
   Theta |-> <<Hz(4, 1), Hz(8, 1)>>,
   AlphaLow |-> <<Hz(8, 1), Hz(10, 1)>>,
   AlphaHigh |-> <<Hz(10, 1), Hz(13, 1)>>,
   BetaLow |-> <<Hz(13, 1), Hz(17, 1)>>,
   BetaHigh |-> <<Hz(17, 1), Hz(30, 1)>>,
   GammaLow |-> <<Hz(30, 1), Hz(40, 1)>>,
   GammaHigh |-> <<Hz(40, 1), Hz(50, 1)>>]

\* a band that would leave out the bin at its upper end
InBandBelowHigh(f, low, high) == HzGeq(f, low) /\ ~HzGeq(f, high)

\* frequencies[i] >= low && frequencies[i] <= high
InBand(f, low, high) == HzGeq(f, low) /\ HzLeq(f, high)

RECURSIVE AddPowers(_, _, _)
\* "band.power += psd[i]" for the bins of S in ascending order, from acc
AddPowers(S, psd, acc) ==
  IF S = {} THEN acc
  ELSE LET i == CHOOSE n \in S : \A m \in S : n <= m
       IN  AddPowers(S \ {i}, psd, acc + psd[i])

\* a band that would divide by the number of its bins even when it has none
DivideAlways(sum, numBins) == [num |-> sum, den |-> numBins]

\* "if (numBins > 0) band.power = band.power / numBins": the quotient as a
\* fraction, the untouched sum (0) over 1 otherwise
Normalize(sum, numBins) ==
  IF numBins > 0 THEN [num |-> sum, den |-> numBins]
  ELSE [num |-> sum, den |-> 1]

\* EEGProcessor.extractBandPowers(frequencies, psd)
extractBandPowers(frequencies, psd) ==
  [bandName \in DOMAIN bandRanges |->
     LET low == bandRanges[bandName][1]
         high == bandRanges[bandName][2]
         inRange == {i \in 1..Len(frequencies) :
                       InBand(frequencies[i], low, high)}
     IN  [range |-> bandRanges[bandName],
          power |-> Normalize(AddPowers(inRange, psd, 0),
                              Cardinality(inRange))]]

BinCount(N) == (N + 1) \div 2

\* computePSD(signal) of an EEGProcessor constructed with the sample rate
\* rate: N = signal.length, frequencies[i] = i * this.sampleRate / N
computePSDAt(rate, signal, power) ==
  LET N == Len(signal)
      frequencies == [i \in 1..BinCount(N) |-> Hz((i - 1) * rate, N)]
      psd == [i \in 1..BinCount(N) |-> power[i]]
  IN  [frequencies |-> frequencies,
       psd |-> psd,
       bandPowers |-> extractBandPowers(frequencies, psd)]

\* computePSD(signal) of the processors the application constructs
computePSD(signal, power) == computePSDAt(sampleRate, signal, power)

\* CRBCalculator.calculatePSD(eegDataArray)
calculatePSD(eegDataArray, power) ==
  IF Len(eegDataArray) < 512 THEN null
  ELSE computePSD(eegDataArray, power)

\* ------------------------------------------------ calculateIAF on its own
\* Rest and task spectra of one 512-sample window at 512 Hz: 256 bins, one
\* per hertz.  Power is 10 everywhere in both spectra except at up to
\* MaxPeaks bins around the alpha range, where a (rest, task) pair is drawn.

\* the bins of 5, 6, 9, 10, 14 and 15 Hz, as 1-based indices
ProbeBins == {6, 7, 10, 11, 15, 16}

\* (rest, task): a drop of 60, a drop of 30, a rise, another drop of 60
PowerPairs == {<<100, 40>>, <<80, 50>>, <<50, 80>>, <<60, 0>>}

MaxPeaks == 3

\* every way to give some of the probe bins a pair
PeakChoices ==
  UNION {[bs -> PowerPairs] :
           bs \in {b \in SUBSET ProbeBins : Cardinality(b) <= MaxPeaks}}

\* what the transform yields for the two signals: power 10 at every bin of
\* both, except the pairs of peaks
PowerOf(peaks, side) ==
  [i \in 1..windowSize |-> IF i \in DOMAIN peaks THEN peaks[i][side] ELSE 10]

\* a signal of one window
OneWindow == [n \in 1..windowSize |-> n]

SpectrumOf(peaks, side) == computePSD(OneWindow, PowerOf(peaks, side))

InitIaf ==
  /\ DecoderFresh(<<>>)
  /\ DspIdle
  /\ \E peaks \in PeakChoices :
       CalWith(SpectrumOf(peaks, 1), SpectrumOf(peaks, 2))

\* crbCalculator.current.calculateIAF(restPSD, taskPSD)
CalculateIAF ==
  /\ ~applied
  /\ applied' = TRUE
  /\ iafResult' = calculateIAF(restPSD, taskPSD)
  /\ UNCHANGED <<input, pos, buffer, results, emitted, bleVars, pc, phase,
                 countdown, isRecording, restData, taskData, restPSD, taskPSD,
                 timers, timeouts, alerts, mounted, device, rawCount,
                 backPending, procBuffer, psdResult, sampleCount, window,
                 iaf, notchArgs, filtered>>

NextIaf == CalculateIAF

SpecIaf == InitIaf /\ [][NextIaf]_vars

\* the bins with 6 <= frequency <= 14 whose task power is strictly below
\* their rest power
Eligible ==
  {i \in 1..Len(restPSD.frequencies) :
     /\ restPSD.frequencies[i].num >= 6 * restPSD.frequencies[i].den
     /\ restPSD.frequencies[i].num <= 14 * restPSD.frequencies[i].den
     /\ i <= Len(taskPSD.psd)
     /\ taskPSD.psd[i] < restPSD.psd[i]}

Drop(i) == restPSD.psd[i] - taskPSD.psd[i]

\* C13: calculateIAF returns, among the bins of 6..14 Hz whose task power is
\* strictly below rest power, the bin with the greatest rest - task
\* difference, the lowest frequency winning a tie, and reports that bin's
\* frequency, its rest power and its difference
C13_GreatestDrop ==
  (applied /\ Eligible # {}) =>
    \E i \in Eligible :
      /\ \A j \in Eligible : Drop(j) < Drop(i) \/ (Drop(j) = Drop(i) /\ j >= i)
      /\ iafResult = [frequency |-> restPSD.frequencies[i],
                      power |-> restPSD.psd[i],
                      desynchronization |-> Drop(i)]

\* 10 Hz dropping 100 to 40 has been chosen over 9 Hz dropping 80 to 50
C13_Witness ==
  /\ applied
  /\ restPSD.psd[11] = 100 /\ taskPSD.psd[11] = 40
  /\ restPSD.psd[10] = 80 /\ taskPSD.psd[10] = 50
  /\ iafResult.frequency = Hz(10 * 512, 512)
  /\ iafResult.power = 100
  /\ iafResult.desynchronization = 60

\* ------------------------------------------------------ calibration screen
\* IAFCalibrationScreen with the part of BleContext it reads.  A state update
\* and the render and effects that follow it are one step.  A sample is
\* known by its arrival number, so rawEEGBuffer is the last RawBufferCap
\* numbers up to rawCount.  The screen is entered with no headset connected.
\* While an alert is on display the buttons of the screen cannot be pressed.

\* startCountdown(60, 'rest-complete') and startCountdown(60, 'processing')
RestSeconds == 60

TaskSeconds == 60

RestNextSkipsTask == "processing"

RestNext == "rest-complete"

TaskNext == "processing"

MinSamplesLow == windowSize - 12

\* if (restData.length < 512 || taskData.length < 512)
MinSamples == 512

\* newBuffer.slice(-1000)
RawBufferCap == 1000

\* expectedSamplesPerInterval = Math.floor((512 * 50) / 1000)
expectedSamplesPerInterval == (512 * 50) \div 1000

\* the samples that arrive between two looks at the headset
RawBurst == 25

\* no more than MaxRaw samples arrive, and recording stops adding to a phase
\* buffer that would pass MaxSamples
MaxRaw == 25

MaxSamples == 525

\* no more than MaxTimers countdowns and processing delays are pending at once
MaxTimers == 2

Min(a, b) == IF a < b THEN a ELSE b

\* BleContext.rawEEGBuffer
rawEEGBuffer ==
  LET len == Min(rawCount, RawBufferCap)
  IN  [n \in 1..len |-> rawCount - len + n]

\* arr.slice(-k)
SliceLast(arr, k) ==
  IF Len(arr) <= k THEN arr ELSE SubSeq(arr, Len(arr) - k + 1, Len(arr))

\* arr without its element n
Without(arr, n) == SubSeq(arr, 1, n - 1) \o SubSeq(arr, n + 1, Len(arr))

\* Alert.alert(title, message, ...): the numbers the message quotes
Alert(title, counts) == [title |-> title, counts |-> counts]

FailureTitles == {"Insufficient Data", "Processing Error", "IAF Not Found"}

\* the spectra a processing run may meet: no difference anywhere, a drop
\* at bin 10, drops at bins 9 and 10, a rise at bin 10
CalPeaks ==
  {[b \in {} |-> <<0, 0>>],
   [b \in {11} |-> <<100, 40>>],
   [b \in {10, 11} |-> IF b = 10 THEN <<80, 50>> ELSE <<100, 40>>],
   [b \in {11} |-> <<50, 80>>]}

calOther == <<input, pos, buffer, results, emitted, bleVars, pc, dspVars>>

InitCal == InitWith(<<>>)

\* arr without its last k elements
DropLast(arr, k) == SubSeq(arr, 1, Len(arr) - Min(k, Len(arr)))

\* a render whose processIAF would hold the data of the render before the
\* last recording tick
CommitEarlierRender(p, rec, al, to, rd, td) ==
  /\ phase' = p
  /\ IF p = "processing" /\ phase # "processing"
     THEN /\ isRecording' = FALSE
          /\ timeouts' =
               Append(to, [restData |-> rd,
                           taskData |->
                             DropLast(td, expectedSamplesPerInterval)])
          /\ alerts' = al
     ELSE IF p = "rest-complete" /\ phase # "rest-complete"
     THEN /\ isRecording' = rec
          /\ timeouts' = to
          /\ alerts' = Append(al, Alert("Rest Phase Complete", <<Len(rd)>>))
     ELSE /\ isRecording' = rec
          /\ timeouts' = to
          /\ alerts' = al

\* the render after setIsRecording(rec) and setPhase(p) with the effects it
\* runs: entering 'processing' calls processIAF (recording off, a timeout
\* that captures the rest and task data rd, td of this render), entering
\* 'rest-complete' shows its alert.  al and to are the alerts and timeouts
\* left by the step so far.
Commit(p, rec, al, to, rd, td) ==
  /\ phase' = p
  /\ IF p = "processing" /\ phase # "processing"
     THEN /\ isRecording' = FALSE
          /\ timeouts' = Append(to, [restData |-> rd, taskData |-> td])
          /\ alerts' = al
     ELSE IF p = "rest-complete" /\ phase # "rest-complete"
     THEN /\ isRecording' = rec
          /\ timeouts' = to
          /\ alerts' = Append(al, Alert("Rest Phase Complete", <<Len(rd)>>))
     ELSE /\ isRecording' = rec
          /\ timeouts' = to
          /\ alerts' = al

CanPress == mounted /\ alerts = <<>>

\* intro: "Start Calibration", setPhase('connect')
GoToConnect ==
  /\ CanPress /\ phase = "intro"
  /\ Commit("connect", isRecording, alerts, timeouts, restData, taskData)
  /\ UNCHANGED <<countdown, restData, taskData, iafResult, restPSD, taskPSD,
                 timers, mounted, device, rawCount, backPending, calOther>>

\* connect: "Connect Device", BleContext.handleConnect succeeds
HandleConnect ==
  /\ CanPress /\ phase = "connect" /\ ~device
  /\ device' = TRUE
  /\ UNCHANGED <<phase, countdown, isRecording, restData, taskData, iafResult,
                 restPSD, taskPSD, timers, timeouts, alerts, mounted,
                 rawCount, backPending, calOther>>

\* BleContext.handleDataReceived with raw samples, RawBurst times
HandleDataReceived ==
  /\ device
  /\ rawCount + RawBurst <= MaxRaw
  /\ rawCount' = rawCount + RawBurst
  /\ UNCHANGED <<phase, countdown, isRecording, restData, taskData, iafResult,
                 restPSD, taskPSD, timers, timeouts, alerts, mounted, device,
                 backPending, calOther>>

\* connect: "Disconnect Device", BleContext.handleDisconnect
HandleDisconnect ==
  /\ CanPress /\ phase = "connect" /\ device
  /\ device' = FALSE
  /\ rawCount' = 0
  /\ UNCHANGED <<phase, countdown, isRecording, restData, taskData, iafResult,
                 restPSD, taskPSD, timers, timeouts, alerts, mounted,
                 backPending, calOther>>

\* a startRestPhase that would leave the rest data of the attempt before
StartRestPhaseKeepsData ==
  /\ CanPress /\ phase = "connect" /\ device
  /\ Len(timers) + Len(timeouts) < MaxTimers
  /\ countdown' = RestSeconds
  /\ timers' = Append(timers, RestNext)
  /\ Commit("rest", TRUE, alerts, timeouts, restData, taskData)
  /\ UNCHANGED <<restData, taskData, iafResult, restPSD, taskPSD, mounted,
                 device, rawCount, backPending, calOther>>

\* connect: "Begin Rest Phase", startRestPhase
StartRestPhase ==
  /\ CanPress /\ phase = "connect" /\ device
  /\ Len(timers) + Len(timeouts) < MaxTimers
  /\ restData' = <<>>
  /\ countdown' = RestSeconds
  /\ timers' = Append(timers, RestNext)
  /\ Commit("rest", TRUE, alerts, timeouts, <<>>, taskData)
  /\ UNCHANGED <<taskData, iafResult, restPSD, taskPSD, mounted, device,
                 rawCount, backPending, calOther>>

\* the 50 ms recording interval fires
\* an interval callback that would store the samples as rest data in
\* whichever phase it runs
RecordTickAnyPhase ==
  /\ mounted /\ isRecording /\ device
  /\ rawEEGBuffer # <<>>
  /\ LET recentSamples == SliceLast(rawEEGBuffer, expectedSamplesPerInterval)
     IN  /\ Len(restData) + Len(recentSamples) <= MaxSamples
         /\ restData' = restData \o recentSamples
         /\ UNCHANGED taskData
  /\ UNCHANGED <<phase, countdown, isRecording, iafResult, restPSD, taskPSD,
                 timers, timeouts, alerts, mounted, device, rawCount,
                 backPending, calOther>>

RecordTick ==
  /\ mounted /\ isRecording /\ device
  /\ rawEEGBuffer # <<>>
  /\ LET recentSamples == SliceLast(rawEEGBuffer, expectedSamplesPerInterval)
     IN  \/ /\ phase = "rest"
            /\ Len(restData) + Len(recentSamples) <= MaxSamples
            /\ restData' = restData \o recentSamples
            /\ UNCHANGED taskData
         \/ /\ phase = "task"
            /\ Len(taskData) + Len(recentSamples) <= MaxSamples
            /\ taskData' = taskData \o recentSamples
            /\ UNCHANGED restData
  /\ UNCHANGED <<phase, countdown, isRecording, iafResult, restPSD, taskPSD,
                 timers, timeouts, alerts, mounted, device, rawCount,
                 backPending, calOther>>

\* the 1 s interval that startCountdown made fires: timer number n
CountdownTick(n) ==
  /\ mounted
  /\ n \in 1..Len(timers)
  /\ IF countdown <= 1
     THEN /\ countdown' = 0
          /\ timers' = Without(timers, n)
          /\ Commit(timers[n], FALSE, alerts, timeouts, restData, taskData)
     ELSE /\ countdown' = countdown - 1
          /\ UNCHANGED <<phase, isRecording, timers, timeouts, alerts>>
  /\ UNCHANGED <<restData, taskData, iafResult, restPSD, taskPSD, mounted,
                 device, rawCount, backPending, calOther>>

\* "Retry Rest" on the rest-complete alert: setPhase('connect')
RetryRest(n) ==
  /\ n \in 1..Len(alerts)
  /\ alerts[n].title = "Rest Phase Complete"
  /\ IF mounted
     THEN Commit("connect", isRecording, Without(alerts, n), timeouts,
                 restData, taskData)
     ELSE /\ alerts' = Without(alerts, n)
          /\ UNCHANGED <<phase, isRecording, timeouts>>
  /\ UNCHANGED <<countdown, restData, taskData, iafResult, restPSD, taskPSD,
                 timers, mounted, device, rawCount, backPending, calOther>>

\* "Continue" on the rest-complete alert: startTaskPhase
Continue(n) ==
  /\ n \in 1..Len(alerts)
  /\ alerts[n].title = "Rest Phase Complete"
  /\ Len(timers) + Len(timeouts) < MaxTimers
  /\ timers' = Append(timers, TaskNext)
  /\ IF mounted
     THEN /\ taskData' = <<>>
          /\ countdown' = TaskSeconds
          /\ Commit("task", TRUE, Without(alerts, n), timeouts, restData, <<>>)
     ELSE /\ alerts' = Without(alerts, n)
          /\ UNCHANGED <<phase, isRecording, timeouts, taskData, countdown>>
  /\ UNCHANGED <<restData, iafResult, restPSD, taskPSD, mounted, device,
                 rawCount, backPending, calOther>>

\* the timeout of processIAF fires with the data d it captured
ProcessTimeout ==
  /\ timeouts # <<>>
  /\ LET d == Head(timeouts)
     IN  IF Len(d.restData) < MinSamples \/ Len(d.taskData) < MinSamples
         THEN /\ alerts' = Append(alerts,
                             Alert("Insufficient Data",
                                   <<Len(d.restData), Len(d.taskData)>>))
              /\ timeouts' = Tail(timeouts)
              /\ UNCHANGED <<phase, isRecording, iafResult, restPSD, taskPSD>>
         ELSE
           \E peaks \in CalPeaks :
             LET r == calculatePSD(d.restData, PowerOf(peaks, 1))
                 t == calculatePSD(d.taskData, PowerOf(peaks, 2))
                 result == calculateIAF(r, t)
             IN  /\ restPSD' = r
                 /\ taskPSD' = t
                 /\ IF r = null \/ t = null
                    THEN /\ alerts' = Append(alerts,
                                        Alert("Processing Error", <<>>))
                         /\ timeouts' = Tail(timeouts)
                         /\ UNCHANGED <<phase, isRecording, iafResult>>
                    ELSE IF result = null
                    THEN /\ alerts' = Append(alerts,
                                        Alert("IAF Not Found", <<>>))
                         /\ timeouts' = Tail(timeouts)
                         /\ UNCHANGED <<phase, isRecording, iafResult>>
                    ELSE IF mounted
                    THEN /\ iafResult' = result
                         /\ Commit("results", isRecording, alerts,
                                   Tail(timeouts), restData, taskData)
                    ELSE /\ timeouts' = Tail(timeouts)
                         /\ UNCHANGED <<phase, isRecording, iafResult, alerts>>
  /\ UNCHANGED <<countdown, restData, taskData, timers, mounted, device,
                 rawCount, backPending, calOther>>

\* "OK" on a failure alert: setPhase('intro')
DismissAlert(n) ==
  /\ n \in 1..Len(alerts)
  /\ alerts[n].title \in FailureTitles
  /\ IF mounted
     THEN Commit("intro", isRecording, Without(alerts, n), timeouts,
                 restData, taskData)
     ELSE /\ alerts' = Without(alerts, n)
          /\ UNCHANGED <<phase, isRecording, timeouts>>
  /\ restPSD' = null
  /\ taskPSD' = null
  /\ UNCHANGED <<countdown, restData, taskData, iafResult, timers, mounted,
                 device, rawCount, backPending, calOther>>

\* results: "Recalibrate"
Recalibrate ==
  /\ CanPress /\ phase = "results"
  /\ restData' = <<>>
  /\ taskData' = <<>>
  /\ iafResult' = null
  /\ Commit("intro", isRecording, alerts, timeouts, <<>>, <<>>)
  /\ restPSD' = null
  /\ taskPSD' = null
  /\ UNCHANGED <<countdown, timers, mounted, device, rawCount, backPending,
                 calOther>>

\* connect: "Back", handleBack as far as its await: with a headset connected
\* it calls handleDisconnect, which awaits disconnectDevice; with none it runs
\* to its end, setPhase('intro')
HandleBack ==
  /\ CanPress /\ phase = "connect" /\ ~backPending
  /\ IF device
     THEN /\ backPending' = TRUE
          /\ UNCHANGED <<phase, isRecording, timeouts, alerts>>
     ELSE /\ Commit("intro", isRecording, alerts, timeouts, restData, taskData)
          /\ UNCHANGED backPending
  /\ UNCHANGED <<countdown, restData, taskData, iafResult, restPSD, taskPSD,
                 timers, mounted, device, rawCount, calOther>>

\* disconnectDevice has settled: handleDisconnect clears the BleContext
\* state, then handleBack goes on with the phase it was pressed in
\* ('connect'): setPhase('intro')
HandleBackResume ==
  /\ backPending
  /\ backPending' = FALSE
  /\ device' = FALSE
  /\ rawCount' = 0
  /\ IF mounted
     THEN Commit("intro", isRecording, alerts, timeouts, restData, taskData)
     ELSE UNCHANGED <<phase, isRecording, timeouts, alerts>>
  /\ UNCHANGED <<countdown, restData, taskData, iafResult, restPSD, taskPSD,
                 timers, mounted, calOther>>

\* "Back" with no headset connected
HandleBackIdle == ~device /\ HandleBack

\* intro: "Cancel", handleCancel; router.back() unmounts the screen
HandleCancel ==
  /\ CanPress /\ phase = "intro"
  /\ device' = FALSE
  /\ rawCount' = IF device THEN 0 ELSE rawCount
  /\ mounted' = FALSE
  /\ UNCHANGED <<phase, countdown, isRecording, restData, taskData, iafResult,
                 restPSD, taskPSD, timers, timeouts, alerts, backPending, calOther>>

\* the host leaves the screen (system back): the cleanup of the unmount
\* effect runs with the device of the first render, which was not connected,
\* so nothing is disconnected; no timer is cleared
Unmount ==
  /\ mounted
  /\ mounted' = FALSE
  /\ UNCHANGED <<phase, countdown, isRecording, restData, taskData, iafResult,
                 restPSD, taskPSD, timers, timeouts, alerts, device, rawCount,
                 backPending, calOther>>

NextCal ==
  \/ GoToConnect
  \/ HandleConnect
  \/ HandleDataReceived
  \/ HandleDisconnect
  \/ StartRestPhase
  \/ RecordTick
  \/ \E n \in 1..Len(timers) : CountdownTick(n)
  \/ \E n \in 1..Len(alerts) : RetryRest(n)
  \/ \E n \in 1..Len(alerts) : Continue(n)
  \/ ProcessTimeout
  \/ \E n \in 1..Len(alerts) : DismissAlert(n)
  \/ Recalibrate
  \/ HandleBackIdle
  \/ HandleCancel
  \/ Unmount

\* a headset that streams raw samples; "Back" is pressed only while no
\* headset is connected (SpecAbort has the other case)
SpecCal == InitCal /\ [][NextCal]_vars

\* the processIAF timeout has just run as far as calculateIAF
ProcessedSpectra ==
  /\ Len(timeouts') < Len(timeouts)
  /\ restPSD' # null
  /\ taskPSD' # null

\* "OK" is pressed on the alert called title while the screen is mounted
Dismissed(title) ==
  /\ mounted
  /\ \E n \in 1..Len(alerts) :
       alerts[n].title = title /\ alerts' = Without(alerts, n)

\* C14: if no bin of 6..14 Hz has task power strictly below rest power (as
\* when the two are equal at every bin), calculateIAF gives no result: the
\* run raises "IAF Not Found", sets no IAF result and does not reach the
\* results phase, and the attempt ends back at intro
C14_NoDropNoResult ==
  [][/\ (ProcessedSpectra /\ Eligible' = {}) =>
          /\ alerts' = Append(alerts, Alert("IAF Not Found", <<>>))
          /\ iafResult = null /\ iafResult' = null
          /\ phase' = phase /\ phase' # "results"
     /\ Dismissed("IAF Not Found") =>
          /\ phase' = "intro"
          /\ iafResult' = null]_vars

\* a run over two spectra that are equal at every bin has ended with the
\* alert and without a result
C14_Witness ==
  /\ restPSD # null /\ taskPSD # null
  /\ restPSD.psd = taskPSD.psd
  /\ Eligible = {}
  /\ alerts = <<Alert("IAF Not Found", <<>>)>>
  /\ iafResult = null
  /\ phase = "processing"

\* C15: if the rest buffer or the task buffer holds fewer than W = 512
\* samples when processing runs, the run raises "Insufficient Data" quoting
\* the two counts, computes no spectrum, sets no IAF result, and the screen
\* is back at intro once the alert is answered
C15_InsufficientData ==
  [][/\ (/\ Len(timeouts') < Len(timeouts)
         /\ (Len(restData) < windowSize \/ Len(taskData) < windowSize)) =>
          /\ alerts' = Append(alerts,
                         Alert("Insufficient Data",
                               <<Len(restData), Len(taskData)>>))
          /\ restPSD' = null /\ taskPSD' = null
          /\ iafResult' = null
          /\ phase' = phase /\ phase' # "results"
     /\ Dismissed("Insufficient Data") =>
          /\ phase' = "intro"
          /\ iafResult' = null]_vars

\* a run has failed with a full rest buffer and a short task buffer
C15_Witness ==
  /\ alerts = <<Alert("Insufficient Data", <<Len(restData), Len(taskData)>>)>>
  /\ Len(restData) >= windowSize
  /\ Len(taskData) < windowSize /\ Len(taskData) > 0
  /\ restPSD = null
  /\ iafResult = null
  /\ phase = "processing"

\* -------------------------------------------------------- leaving half way
\* The same screen with a headset that is connected but sends no raw sample,
\* and "Back" pressed with the headset connected: handleBack then waits for
\* the disconnection, and the screen stays in use until it has settled.

NextAbort ==
  \/ GoToConnect
  \/ HandleConnect
  \/ HandleDisconnect
  \/ StartRestPhase
  \/ \E n \in 1..Len(timers) : CountdownTick(n)
  \/ \E n \in 1..Len(alerts) : RetryRest(n)
  \/ \E n \in 1..Len(alerts) : Continue(n)
  \/ ProcessTimeout
  \/ \E n \in 1..Len(alerts) : DismissAlert(n)
  \/ HandleBack
  \/ HandleBackResume
  \/ HandleCancel
  \/ Unmount

SpecAbort == InitCal /\ [][NextAbort]_vars

\* the step changes the phase to p
Enters(p) == phase # p /\ phase' = p

\* the step raises a failure alert
Fails ==
  /\ Len(alerts') > Len(alerts)
  /\ alerts'[Len(alerts')].title \in FailureTitles

\* C16: a result is reached only through rest collection, task collection
\* and processing, in that order and without another phase in between:
\* rest-complete is entered only from rest, task only from rest-complete,
\* processing only from task, and results and the failure alerts only from
\* processing
C16_PhaseOrder ==
  [][/\ Enters("rest-complete") => phase = "rest"
     /\ Enters("task") => phase = "rest-complete"
     /\ Enters("processing") => phase = "task"
     /\ Enters("results") => phase = "processing"
     /\ Fails => phase = "processing"]_vars

\* handleBack has finished: it ran to its end at once, or after its await
BackDone ==
  \/ ~backPending /\ ~backPending' /\ phase = "connect" /\ phase' = "intro"
  \/ backPending /\ ~backPending' /\ mounted

\* C17: after the host's abort the screen is at intro and the phase buffers
\* are empty, and from intro or connect no step leads to rest-complete,
\* processing, results or a failure (as a countdown that still runs would):
\* the only phase entered from there is rest, when the host starts it
C17_AbortIsFinal ==
  [][/\ BackDone => (phase' = "intro" /\ restData' = <<>> /\ taskData' = <<>>)
     /\ (mounted /\ phase \in {"intro", "connect"}) =>
          (phase' \in {"intro", "connect", "rest"} /\ ~Fails)]_vars

\* ------------------------------------------------- EEGProcessor.addSample
\* BleContext hands every raw sample of the stream to addSample. The k-th
\* sample of the stream has the value k, so a window shows which samples it
\* holds; the powers the transform yields are any of a few spectra.

\* what the transform yields: the spectra of the calibration, two whose
\* powers change from bin to bin and are 0 at some bins, and the spectrum of
\* a signal that does not change (all 0 once the mean is taken off)
PowerShapes ==
  {PowerOf(peaks, 1) : peaks \in CalPeaks}
    \cup {[i \in 1..windowSize |-> (i * m) % 7] : m \in {0, 1, 3}}

\* findIAF: const alphaRange = [8, 13]
liveAlphaRange == <<Hz(8, 1), Hz(13, 1)>>

\* findIAF: let iaf = 10
defaultIAF == Hz(10, 1)

RECURSIVE FindPeak(_, _, _, _)
\* the loop of findIAF over the bins of S in ascending order, entered with
\* the best so far: "if (psd[i] > maxPower) { maxPower = psd[i]; iaf = freq }"
FindPeak(S, frequencies, psd, best) ==
  IF S = {} THEN best
  ELSE LET i == CHOOSE n \in S : \A m \in S : n <= m
       IN  FindPeak(S \ {i}, frequencies, psd,
                    IF psd[i] > best.power
                    THEN [frequency |-> frequencies[i], power |-> psd[i]]
                    ELSE best)

\* EEGProcessor.findIAF(frequencies, psd)
findIAF(frequencies, psd) ==
  FindPeak({i \in 1..Len(frequencies) :
              InBand(frequencies[i], liveAlphaRange[1], liveAlphaRange[2])},
           frequencies, psd, [frequency |-> defaultIAF, power |-> 0])

MaxStream == 1300

Sample(k) == k

\* a processor that would drop the whole window
slideAll == windowSize

\* Math.floor(windowSize * overlap), overlap = 0.5
slideAmount == (windowSize * 50) \div 100

dspOther == <<input, pos, buffer, results, emitted, bleVars, pc, calVars>>

InitDsp == InitWith(<<>>)

AddSample ==
  /\ sampleCount < MaxStream
  /\ sampleCount' = sampleCount + 1
  /\ LET pushed == Append(procBuffer, Sample(sampleCount + 1))
     IN  IF Len(pushed) >= windowSize
         THEN \E power \in PowerShapes :
                /\ window' = SubSeq(pushed, 1, windowSize)
                /\ psdResult' = computePSD(window', power)
                /\ procBuffer' = SliceFrom(pushed, slideAmount)
                /\ iaf' = findIAF(psdResult'.frequencies, psdResult'.psd)
         ELSE /\ psdResult' = null
              /\ procBuffer' = pushed
              /\ UNCHANGED <<window, iaf>>
  /\ UNCHANGED <<notchArgs, filtered, applied, dspOther>>

NextDsp == AddSample

SpecDsp == InitDsp /\ [][NextDsp]_vars

\* the samples from the a-th to the b-th of the stream
Stream(a, b) == [i \in 1..(b - a + 1) |-> Sample(a + i - 1)]

\* the sample counts at which an analysis is due: W, W + W/2, W + 2*(W/2), ...
AnalysisDue(n) ==
  \E j \in 0..MaxStream : n = windowSize + j * (windowSize \div 2)

\* C18: addSample returns a spectrum exactly at the sample counts W,
\* W + W/2, W + 2*(W/2), ...; the spectrum is computed over the W most
\* recent samples and the buffer is left with the newest W/2 of them; after
\* every call the buffer holds fewer than W samples
C18_SlidingWindow ==
  sampleCount >= 1 =>
    /\ (psdResult # null) <=> AnalysisDue(sampleCount)
    /\ Len(procBuffer) < windowSize
    /\ psdResult # null =>
         /\ window = Stream(sampleCount - windowSize + 1, sampleCount)
         /\ procBuffer =
              Stream(sampleCount - windowSize \div 2 + 1, sampleCount)
         /\ Len(psdResult.frequencies) = windowSize \div 2

\* the third analysis of a stream has been returned
C18_Witness ==
  /\ sampleCount = 2 * windowSize
  /\ psdResult # null
  /\ Len(procBuffer) = windowSize \div 2

\* ---------------------------------------------- the spectrum of a phase

\* two frequencies are the same number
SameHz(f, g) == f.num * g.den = g.num * f.den

\* the spectrum has windowSize / 2 bins, the k-th at k * sampleRate / windowSize
OnWindowGrid(P) ==
  /\ Len(P.frequencies) = windowSize \div 2
  /\ \A k \in 1..Len(P.frequencies) :
       SameHz(P.frequencies[k], Hz((k - 1) * sampleRate, windowSize))

\* C19: the spectrum processIAF computes for a phase buffer, whatever its
\* length, has windowSize / 2 bins with frequencies[k] = k * sampleRate /
\* windowSize, so that the rest and the task spectrum have the same
\* frequencies array
C19_WindowGrid ==
  /\ restPSD # null => OnWindowGrid(restPSD)
  /\ taskPSD # null => OnWindowGrid(taskPSD)
  /\ (restPSD # null /\ taskPSD # null) =>
       restPSD.frequencies = taskPSD.frequencies

\* ------------------------------------------- the entry points on their own
\* computePSD and calculatePSD applied once to a signal of any length up to
\* MaxSignal.

MaxSignal == 600

InitPsd ==
  /\ DecoderFresh(<<>>)
  /\ CalIdle
  /\ procBuffer = <<>>
  /\ psdResult = null
  /\ sampleCount = 0
  /\ iaf = null
  /\ notchArgs = null
  /\ filtered = <<>>
  /\ applied = FALSE
  /\ \E L \in 0..MaxSignal : window = Stream(1, L)

\* eegProcessor.computePSD(window)
ComputePSD ==
  /\ ~applied
  /\ applied' = TRUE
  /\ \E power \in PowerShapes : psdResult' = computePSD(window, power)
  /\ UNCHANGED <<procBuffer, sampleCount, window, iaf, notchArgs, filtered,
                 dspOther>>

\* crbCalculator.calculatePSD(window)
CalculatePSD ==
  /\ ~applied
  /\ applied' = TRUE
  /\ \E peaks \in CalPeaks :
       psdResult' = calculatePSD(window, PowerOf(peaks, 1))
  /\ UNCHANGED <<procBuffer, sampleCount, window, iaf, notchArgs, filtered,
                 dspOther>>

NextPsd == ComputePSD \/ CalculatePSD

SpecPsd == InitPsd /\ [][NextPsd]_vars

\* C20: no entry point returns a spectrum for a signal shorter than
\* windowSize
C20_NoShortSpectrum ==
  (applied /\ psdResult # null) => Len(window) >= windowSize

\* ------------------------------------------------------------ band powers

\* the ends of the bands in half Hz, in the order of the band names
BandEdges == <<<<1, 8>>, <<8, 16>>, <<16, 20>>, <<20, 26>>,
               <<26, 34>>, <<34, 60>>, <<60, 80>>, <<80, 100>>>>

\* the bins of the spectrum P between the ends of the k-th band, ends included
BinsOfBand(P, k) ==
  {n \in 1..Len(P.frequencies) :
     /\ 2 * P.frequencies[n].num >= BandEdges[k][1] * P.frequencies[n].den
     /\ 2 * P.frequencies[n].num <= BandEdges[k][2] * P.frequencies[n].den}

RECURSIVE SumDown(_, _, _)
\* psd[lo] + ... + psd[hi]
SumDown(psd, lo, hi) ==
  IF hi < lo THEN 0 ELSE psd[hi] + SumDown(psd, lo, hi - 1)

Lowest(S) == CHOOSE n \in S : \A m \in S : n <= m

Highest(S) == CHOOSE n \in S : \A m \in S : n >= m

\* C21: every band's power is the mean of the powers of exactly the bins
\* with low <= frequency <= high, both ends included; a band with no such
\* bin reports exactly 0; no band's power is negative or undefined
C21_BandMeans ==
  (applied /\ psdResult # null) =>
    \A k \in 1..Len(bands) :
      LET bins == BinsOfBand(psdResult, k)
          got == psdResult.bandPowers[bands[k]].power
      IN  /\ got.den > 0 /\ got.num >= 0
          /\ IF bins = {}
             THEN got.num = 0 /\ got.den = 1
             ELSE /\ got.den = Cardinality(bins)
                  /\ got.num = SumDown(psdResult.psd, Lowest(bins),
                                       Highest(bins))

\* a window of 512 samples: the bin at 4 Hz is the last of Delta and the
\* first of Theta
C21_Witness ==
  /\ applied /\ psdResult # null
  /\ Len(window) = windowSize
  /\ Highest(BinsOfBand(psdResult, 1)) = 5
  /\ Lowest(BinsOfBand(psdResult, 2)) = 5
  /\ psdResult.bandPowers.Theta.power.num > 0

\* ------------------------------------------------------ the live alpha peak

\* the bins of the spectrum P from 8 Hz to 13 Hz
AlphaBins(P) ==
  {n \in 1..Len(P.frequencies) :
     /\ P.frequencies[n].num >= 8 * P.frequencies[n].den
     /\ P.frequencies[n].num <= 13 * P.frequencies[n].den}

\* the bin of S with the greatest power, the lowest of them on ties
PeakBin(P, S) ==
  CHOOSE n \in S :
    /\ \A m \in S : P.psd[m] <= P.psd[n]
    /\ \A m \in S : P.psd[m] = P.psd[n] => n <= m

\* C22: for the spectrum of an analysis, findIAF returns the frequency and
\* the power of the bin in [8, 13] Hz with the greatest power, the lowest
\* such bin on ties; 10 Hz with power 0 when no bin is in [8, 13]; the
\* frequency returned is always in [8, 13]
C22_FindIAF ==
  psdResult # null =>
    /\ iaf.frequency.num >= 8 * iaf.frequency.den
    /\ iaf.frequency.num <= 13 * iaf.frequency.den
    /\ IF AlphaBins(psdResult) = {}
       THEN iaf = [frequency |-> Hz(10, 1), power |-> 0]
       ELSE LET n == PeakBin(psdResult, AlphaBins(psdResult))
            IN  /\ SameHz(iaf.frequency, psdResult.frequencies[n])
                /\ iaf.power = psdResult.psd[n]

\* ------------------------------------------------------ incomplete frames

\* b starts with a sync pair and is too short to hold LEN, or to hold the
\* frame that LEN declares
Incomplete(b) ==
  /\ Len(b) >= 2 /\ b[1] = SYNC /\ b[2] = SYNC
  /\ Len(b) < 3 \/ Len(b) < 4 + b[3]

\* s is the end of t
IsSuffix(s, t) ==
  Len(s) <= Len(t) /\ s = SubSeq(t, Len(t) - Len(s) + 1, Len(t))

\* C23: a call that leaves, or finds and cannot complete, a sync pair with
\* too few bytes after it returns no packet for it and keeps every byte from
\* the pair on; the call that brings the rest of the frame decodes it (its
\* packet comes first in the results when the checksum matches and the
\* fields are let through)
C23_WaitsForMoreBytes ==
  [][LET all == buffer \o SubSeq(input, pos + 1, pos')
     IN  /\ IsSuffix(buffer', all)
         /\ (Incomplete(buffer) /\ Incomplete(all)) =>
              (buffer' = all /\ results' = <<>>)
         /\ (Incomplete(buffer) /\ ~Incomplete(all)
               /\ ValidFrameAt(all, 1)
               /\ Accepted(DecodePayload(PayloadAt(all, 1)))) =>
              /\ Len(results') >= 1
              /\ results'[1].parsed = DecodePayload(PayloadAt(all, 1))
              /\ IsSuffix(buffer', SliceFrom(all, 4 + all[3]))]_vars

\* a part of a frame with attention and a raw sample has arrived, LEN
\* included: the call returned no packet and every byte is still buffered
C23_Witness ==
  /\ input = FrameOf[<<<<"attention", 50>>, <<"rawEEG", -200>>>>]
  /\ pos >= 3 /\ pos < Len(input)
  /\ Incomplete(buffer)
  /\ buffer = stream
  /\ emitted = <<>>

\* ------------------------------------------------------- truncated fields
\* Frames whose payload ends inside an entry: well-formed entries, then the
\* front of one more entry that the payload is too short to hold.

\* the front of an entry: a code without its value, an extended code without
\* its VLEN byte, or with VLEN and fewer value bytes than VLEN says
Cuts ==
  {<<2>>, <<4>>, <<5>>, <<16>>,
   <<128>>, <<128, 2>>, <<128, 2, 1>>,
   <<131>>, <<131, 24>>, <<131, 24, 1, 2, 3>>,
   <<144>>, <<144, 3, 1>>}

CutFrameOf ==
  [tc \in FieldSeqs \X Cuts |-> Frame(EncodeFields(tc[1]) \o tc[2])]

InitTrunc == \E tc \in FieldSeqs \X Cuts : InitWith(CutFrameOf[tc])

NextTrunc == \E k \in 1..Len(input) : Feed(k)

SpecTrunc == InitTrunc /\ [][NextTrunc]_vars

\* the payload of the frame decodes to the fields of the entries before the
\* cut
CutDecoded ==
  \A tc \in FieldSeqs \X Cuts :
    input = CutFrameOf[tc] =>
      DecodePayload(PayloadAt(input, 1)) = FieldsOf(tc[1])

\* C24: when the payload ends inside an entry, the fields of the entries
\* before it are decoded with their values, the cut entry sets no field, and
\* the frame still gives its packet with those fields
C24_TruncatedField ==
  \A tc \in FieldSeqs \X Cuts :
    input = CutFrameOf[tc] =>
      /\ DecodePayload(PayloadAt(input, 1)) = FieldsOf(tc[1])
      /\ (Delivered /\ tc[1] # <<>>) =>
           Parsed(emitted) = <<FieldsOf(tc[1])>>

\* ----------------------------------------------------------- unknown codes
\* Frames whose payload holds one entry with an unknown code among
\* well-formed entries.

\* entries with a code the decoder does not know: below 0x80 the code and
\* one value byte, from 0x80 on the code, VLEN and VLEN value bytes; some
\* value bytes look like a known entry or like a sync pair
Unknowns ==
  {<<16, 7>>, <<1, 170>>, <<127, 4>>, <<3, 128>>,
   <<144, 0>>, <<144, 1, 9>>, <<129, 2, 4, 50>>, <<255, 3, 2, 5, 131>>,
   <<132, 2, 170, 170>>}

\* the entries before and after the unknown one: none or one on each side
AroundSeqs ==
  {<<>>, <<<<"poorSignal", 5>>>>, <<<<"attention", 50>>>>,
   <<<<"meditation", 60>>>>, <<<<"rawEEG", 300>>>>,
   <<<<"eegBands", SomeBands>>>>}

Splits == {ab \in AroundSeqs \X AroundSeqs : WellFormed(ab[1] \o ab[2])}

WithUnknownOf ==
  [su \in Splits \X Unknowns |->
     Frame(EncodeFields(su[1][1]) \o su[2] \o EncodeFields(su[1][2]))]

InitUnknown == \E su \in Splits \X Unknowns : InitWith(WithUnknownOf[su])

NextUnknown == \E k \in 1..Len(input) : Feed(k)

SpecUnknown == InitUnknown /\ [][NextUnknown]_vars

\* C25: an entry with an unknown code is skipped whole (code and one byte
\* below 0x80; code, VLEN and VLEN bytes from 0x80 on) and sets no field;
\* the entries before and after it decode to their fields and values, in the
\* payload and in the packet the frame gives
C25_UnknownSkipped ==
  \A su \in Splits \X Unknowns :
    input = WithUnknownOf[su] =>
      LET t == su[1][1] \o su[1][2]
      IN  /\ DecodePayload(PayloadAt(input, 1)) = FieldsOf(t)
          /\ \A n \in 1..Len(emitted) : emitted[n].parsed = FieldsOf(t)
          /\ Delivered => Parsed(emitted) = Expected(t)

\* an unknown extended entry whose two value bytes read as an attention
\* entry stood between a poorSignal and a meditation entry: the packet has
\* these two fields only
C25_Witness ==
  /\ input = Frame(<<2, 5, 129, 2, 4, 50, 5, 60>>)
  /\ Delivered
  /\ Parsed(emitted) = <<[poorSignal |-> 5, meditation |-> 60]>>

\* ------------------------------------------------------------- band powers
\* A frame whose payload is 83 18 and 24 value bytes: one 3-byte group takes
\* every combination of a few byte values, the others a fixed pattern.

EdgeBytes == {0, 1, 127, 128, SYNC, 255}

\* the 24 value bytes: the k-th group is g, the byte at place n elsewhere is
\* (37 * n) % 256
BandValueBytes(k, g) ==
  [n \in 1..24 |->
     IF (n - 1) \div 3 + 1 = k THEN g[((n - 1) % 3) + 1] ELSE (37 * n) % 256]

InitBands ==
  \E k \in 1..Len(bands), g \in EdgeBytes \X EdgeBytes \X EdgeBytes :
    InitWith(Frame(<<131, 24>> \o BandValueBytes(k, g)))

NextBands == FeedAll

SpecBands == InitBands /\ [][NextBands]_vars

\* the value of the k-th 3-byte group of the frame: the value bytes start at
\* the sixth byte of the frame
GroupValue(k) ==
  input[3 * k + 3] * 65536 + input[3 * k + 4] * 256 + input[3 * k + 5]

\* C26: the payload 83 18 and 24 bytes decodes to eegBands with exactly the
\* keys Delta, Theta, AlphaLow, AlphaHigh, BetaLow, BetaHigh, GammaLow,
\* GammaHigh, the k-th of them b0 * 65536 + b1 * 256 + b2 of the k-th group,
\* a value in 0..16777215; the frame's packet carries this field
C26_BandPowers ==
  LET parsed == DecodePayload(PayloadAt(input, 1))
  IN  /\ DOMAIN parsed = {"eegBands"}
      /\ DOMAIN parsed["eegBands"] =
           {"Delta", "Theta", "AlphaLow", "AlphaHigh",
            "BetaLow", "BetaHigh", "GammaLow", "GammaHigh"}
      /\ \A k \in 1..8 :
           /\ parsed["eegBands"][bands[k]] = GroupValue(k)
           /\ parsed["eegBands"][bands[k]] \in 0..16777215
      /\ parsed["eegBands"]["Delta"] = GroupValue(1)
      /\ parsed["eegBands"]["AlphaLow"] = GroupValue(3)
      /\ parsed["eegBands"]["GammaHigh"] = GroupValue(8)
      /\ Delivered => Parsed(emitted) = <<parsed>>

\* the frame whose BetaLow group is FF FF FF gave its packet
C26_Witness ==
  /\ Delivered
  /\ Len(emitted) = 1
  /\ emitted[1].parsed["eegBands"]["BetaLow"] = 16777215
  /\ <<input[18], input[19], input[20]>> = <<255, 255, 255>>

\* ------------------------------------------------- the ends of the search
\* calculateIAF on the spectra of processors constructed with a sample rate
\* of Rates Hz, each over one second of signal: the bins are 1 Hz apart and
\* the last is at rate / 2 - 1 Hz.

Rates == {28, 30, 32, sampleRate}

SpectrumAt(rate, peaks, side) ==
  computePSDAt(rate, [n \in 1..rate |-> n], PowerOf(peaks, side))

InitEdge ==
  /\ DecoderFresh(<<>>)
  /\ DspIdle
  /\ \E rate \in Rates, peaks \in PeakChoices :
       CalWith(SpectrumAt(rate, peaks, 1), SpectrumAt(rate, peaks, 2))

NextEdge == CalculateIAF

SpecEdge == InitEdge /\ [][NextEdge]_vars

RoundQuotient(x, y) == (2 * x + y) \div (2 * y)

\* a filter that would subtract the sample it has already filtered
NotchStepInPlace(signal, out, i, period) ==
  [signal |-> [signal EXCEPT ![i + 1] = signal[i + 1] - signal[i + 1 - period]],
   filtered |-> [out EXCEPT ![i + 1] = signal[i + 1] - signal[i + 1 - period]]]

\* "filtered[i] = signal[i] - signal[i - period]" for a 0-based i
NotchStep(signal, out, i, period) ==
  [signal |-> signal,
   filtered |-> [out EXCEPT ![i + 1] = signal[i + 1] - signal[i + 1 - period]]]

RECURSIVE NotchLoop(_, _, _, _)
\* "for (let i = period; i < signal.length; i++)" entered at i
NotchLoop(signal, out, i, period) ==
  IF ~(i < Len(signal)) THEN [signal |-> signal, filtered |-> out]
  ELSE LET r == NotchStep(signal, out, i, period)
       IN  NotchLoop(r.signal, r.filtered, i + 1, period)

\* EEGProcessor.notchFilter(signal, notchFreq, sampleRate): the array it
\* returns and the array it was given as the call leaves it
notchFilter(signal, notchFreq, rate) ==
  NotchLoop(signal, signal, RoundQuotient(rate, notchFreq),
            RoundQuotient(rate, notchFreq))

\* longest signal
MaxNotch == 25

\* the pairs <<notchFreq, sampleRate>>: the call of computePSD, the 60 Hz
\* notch, and quotients of 5, 2.4976 and 2.5
NotchPairs ==
  {<<50, sampleRate>>, <<60, sampleRate>>, <<50, 250>>, <<205, sampleRate>>,
   <<100, 250>>}

\* signals of length L: a ramp, a ramp with changing sign, a sawtooth
NotchSignals(L) ==
  {[n \in 1..L |-> n * n], [n \in 1..L |-> (((n % 2) * 2) - 1) * n],
   [n \in 1..L |-> ((7 * n) % 11) - 5]}

InitNotch ==
  /\ DecoderFresh(<<>>)
  /\ CalIdle
  /\ procBuffer = <<>>
  /\ psdResult = null
  /\ sampleCount = 0
  /\ iaf = null
  /\ filtered = <<>>
  /\ applied = FALSE
  /\ \E L \in 0..MaxNotch, pair \in NotchPairs :
       /\ window \in NotchSignals(L)
       /\ notchArgs = [notchFreq |-> pair[1], sampleRate |-> pair[2]]

\* processed = this.notchFilter(window, notchFreq, sampleRate)
NotchFilter ==
  /\ ~applied
  /\ applied' = TRUE
  /\ LET r == notchFilter(window, notchArgs.notchFreq, notchArgs.sampleRate)
     IN  /\ filtered' = r.filtered
         /\ window' = r.signal
  /\ UNCHANGED <<procBuffer, psdResult, sampleCount, iaf, notchArgs, dspOther>>

NextNotch == NotchFilter

SpecNotch == InitNotch /\ [][NextNotch]_vars

\* p is sampleRate / notchFreq rounded to the nearest whole number
IsPeriod(p) ==
  /\ 2 * p * notchArgs.notchFreq - notchArgs.notchFreq
       <= 2 * notchArgs.sampleRate
  /\ 2 * notchArgs.sampleRate
       < 2 * p * notchArgs.notchFreq + notchArgs.notchFreq

\* C28: with p = round(sampleRate / notchFreq), 10 for 512 Hz and 50 Hz, the
\* call returns out with out[i] = in[i] - in[i - p] for i >= p, taken from
\* the input as it was given, and out[i] = in[i] for i < p; the input array
\* is the same after the call
C28_NotchFilter ==
  [][(~applied /\ applied') =>
       \E p \in 1..sampleRate :
         /\ IsPeriod(p)
         /\ (notchArgs.notchFreq = 50 /\ notchArgs.sampleRate = 512) => p = 10
         /\ window' = window
         /\ Len(filtered') = Len(window)
         /\ \A n \in 1..Len(window) :
              filtered'[n] = IF n - 1 >= p THEN window[n] - window[n - p]
                             ELSE window[n]]_vars

\* a signal of 25 samples went through the 50 Hz notch at 512 Hz: sample 20
\* had sample 10 subtracted, which itself had sample 0 subtracted
C28_Witness ==
  /\ applied
  /\ notchArgs = [notchFreq |-> 50, sampleRate |-> 512]
  /\ Len(window) = 25
  /\ filtered[21] = window[21] - window[11]
  /\ filtered[11] = window[11] - window[1]
  /\ filtered[11] # window[11]
  /\ filtered[10] = window[10]

\* ------------------------------------------------- frames with no field
\* One checksum-valid frame whose payload holds no recognised code: nothing,
\* one unknown entry or two; alone or followed by an attention frame.

NoFieldPayloads ==
  {<<>>} \cup Unknowns \cup {u \o v : u \in Unknowns, v \in Unknowns}

AttentionFrame == Frame(<<4, 50>>)

NoFieldInputs ==
  {Frame(pl) \o tail : pl \in NoFieldPayloads, tail \in {<<>>, AttentionFrame}}

InitNoField == \E bytes \in NoFieldInputs : InitWith(bytes)

NextNoField == \E k \in 1..Len(input) : Feed(k)

SpecNoField == InitNoField /\ [][NextNoField]_vars

\* the stream ends with the attention frame
HasAttentionFrame == IsSuffix(AttentionFrame, input)

\* C29: a checksum-valid frame whose payload has no recognised field (an
\* empty payload, or unknown codes only) produces no packet: the only packet
\* such a stream ever yields is that of the attention frame behind it
C29_NoFieldNoPacket ==
  /\ DecodePayload(PayloadAt(input, 1)) = EmptyObject
  /\ \A n \in 1..Len(emitted) :
       /\ HasAttentionFrame
       /\ emitted[n].parsed = [attention |-> 50]
  /\ Len(emitted) <= 1
  /\ Delivered => (Len(emitted) = 1 <=> HasAttentionFrame)

\* a frame of two unknown entries and an attention frame went through: the
\* decoder consumed both and emitted the attention packet alone
C29_Witness ==
  /\ input = Frame(<<16, 7, 144, 1, 9>>) \o AttentionFrame
  /\ Delivered
  /\ buffer = <<>>
  /\ Parsed(emitted) = <<[attention |-> 50]>>

\* ------------------------------------------------------- recording phases

\* t is s with samples appended
Grew(s, t) == Len(t) > Len(s) /\ SubSeq(t, 1, Len(s)) = s

\* a buffer is the same after the step, or emptied by the press of a button
KeptOrCleared(s, t) == t = s \/ t = <<>>

TimeoutRuns == Len(timeouts') < Len(timeouts)

Consecutive(arr) == \A n \in 1..(Len(arr) - 1) : arr[n + 1] = arr[n] + 1

\* C32: during a collecting phase the phase buffer is the sequence of the raw
\* samples delivered, each once and in arrival order, none duplicated and
\* none skipped
C32_EachSampleOnce == Consecutive(restData) /\ Consecutive(taskData)

\* ------------------------------------------------- packets to the host
\* The monitor callback of connectAndMonitor with the host's
\* handleDataReceived behind it, on the streams of Spec.

undefined == [isUndefined |-> TRUE]

\* obj.key: undefined when obj has no such property
Get(obj, key) == IF key \in DOMAIN obj THEN obj[key] ELSE undefined

\* handleDataReceived(parsedData) throws: "parsedData.eegBands" is read
\* first, a TypeError when parsedData is undefined
Throws(parsedData) == parsedData = undefined

RECURSIVE ForEachPacket(_, _, _, _)
\* packets.forEach(packet => { if (packet.checksumValid)
\* onDataReceived(packet.data) }) from packet n on, inside the try: an
\* exception leaves the forEach and is caught and logged
ForEachPacket(packets, n, calls, done) ==
  IF n > Len(packets) THEN [handled |-> calls, routed |-> done]
  ELSE IF ~packets[n].checksumValid
  THEN ForEachPacket(packets, n + 1, calls, done)
  ELSE LET arg == Get(packets[n], "data")
       IN  IF Throws(arg)
           THEN [handled |-> Append(calls, arg), routed |-> done]
           ELSE ForEachPacket(packets, n + 1, Append(calls, arg),
                              Append(done, arg))

\* a notification with the next k bytes: the monitor callback
MonitorCallback(k) ==
  /\ k \in 1..(Len(input) - pos)
  /\ LET r == parseStream(buffer, SubSeq(input, pos + 1, pos + k))
         f == ForEachPacket(r.results, 1, handled, routed)
     IN  /\ buffer' = r.buffer
         /\ results' = r.results
         /\ emitted' = emitted \o r.results
         /\ handled' = f.handled
         /\ routed' = f.routed
  /\ pos' = pos + k
  /\ UNCHANGED <<input, link, connId, owner, appVars>>

NextHost == \E k \in 1..Len(input) : MonitorCallback(k)

SpecHost == Init /\ [][NextHost]_vars

\* C33: every packet parseStream returns for a checksum-valid frame is
\* passed to the host's data handler carrying its decoded fields, in stream
\* order, and is routed by it
C33_PacketsReachHandler ==
  /\ handled = Parsed(emitted)
  /\ routed = Parsed(emitted)

\* ------------------------------------------------- two connections at once
\* connectAndMonitor is called again while a connection is monitored: every
\* subscription made so far stays alive and all of them feed the decoder the
\* module exports.

\* connectAndMonitor while another connection is monitored
MonitorAnother ==
  /\ link = "monitoring"
  /\ connId < MaxConnections
  /\ connId' = connId + 1
  /\ buffer' = reset(buffer)
  /\ owner' = <<>>
  /\ input' = <<>>
  /\ pos' = 0
  /\ emitted' = <<>>
  /\ UNCHANGED <<link, results, handled, routed, appVars>>

\* the monitor callback of connection c with a value
NotifyFrom(c, chunk) ==
  /\ link = "monitoring"
  /\ c \in 1..connId
  /\ Len(input) + Len(chunk) <= MaxBytes
  /\ LET r == parseStream(buffer, chunk)
         tags == owner \o [n \in 1..Len(chunk) |-> c]
     IN  /\ buffer' = r.buffer
         /\ results' = r.results
         /\ emitted' = emitted \o r.results
         /\ owner' = SliceFrom(tags, Len(tags) - Len(r.buffer))
  /\ input' = input \o chunk
  /\ pos' = pos + Len(chunk)
  /\ UNCHANGED <<link, connId, handled, routed, appVars>>

NextShared ==
  \/ ConnectAndMonitor
  \/ MonitorAnother
  \/ \E c \in 1..MaxConnections, chunk \in Chunks : NotifyFrom(c, chunk)

SpecShared == InitBle /\ [][NextShared]_vars

\* C34: each connection feeds its own decoder state: the bytes of two
\* connections monitored at once are never in the same decoder buffer
C34_OwnDecoderState ==
  \A n \in 1..Len(owner), m \in 1..Len(owner) : owner[n] = owner[m]

\* ------------------------------------------------------ persistent garbage
\* Any bytes reach a fresh decoder: short chunks of sync bytes, zero bytes,
\* frame headers with LEN 2 and LEN 255 and a whole frame, as long as no more
\* than MaxBytes bytes have come, and runs of 85 bytes 0x90 (an unknown
\* extended code), which fill a frame of LEN 255 in three chunks, beyond that.

Fill == [n \in 1..(255 \div 3) |-> 144]

ShortChunks ==
  {<<SYNC>>, <<0>>, <<SYNC, SYNC, 255>>, <<SYNC, SYNC, 2>>, Frame(<<4, 50>>)}

\* most bytes delivered when chunk is the next one
FedCap(chunk) == IF chunk = Fill THEN MaxBytes + 4 * Len(Fill) ELSE MaxBytes

\* parseStream(chunk) on whatever the buffer holds
FeedBytes(chunk) ==
  /\ Len(input) + Len(chunk) <= FedCap(chunk)
  /\ LET r == parseStream(buffer, chunk)
     IN  /\ buffer' = r.buffer
         /\ results' = r.results
         /\ emitted' = emitted \o r.results
  /\ input' = input \o chunk
  /\ pos' = pos + Len(chunk)
  /\ UNCHANGED <<bleVars, appVars>>

NextGarbage == \E chunk \in ShortChunks \cup {Fill} : FeedBytes(chunk)

SpecGarbage == InitWith(<<>>) /\ [][NextGarbage]_vars

\* C35: after every parseStream call, whatever bytes were fed, the buffer
\* holds at most 258 bytes: fewer than 4 bytes, or a sync pair, a LEN byte
\* and fewer than LEN + 1 bytes after them
C35_BufferBounded ==
  /\ Len(buffer) <= 258
  /\ \/ Len(buffer) < 4
     \/ /\ buffer[1] = SYNC
        /\ buffer[2] = SYNC
        /\ Len(buffer) - 3 < buffer[3] + 1

\* after garbage that was dropped, a header with LEN 255 and 255 bytes of
\* its frame are waiting for the checksum byte: 258 bytes
C35_Witness ==
  /\ Len(buffer) = 258
  /\ buffer[3] = 255
  /\ pos > Len(buffer)

\* --------------------------------------------------- what a result holds

\* C36: every result calculateIAF returns has a frequency within [6, 14] Hz
\* and a desynchronization above 0, and it is the rest power, the frequency
\* and the drop of one bin whose rest power is above its task power
C36_ResultInRange ==
  (applied /\ iafResult # null) =>
    /\ HzGeq(iafResult.frequency, Hz(6, 1))
    /\ HzLeq(iafResult.frequency, Hz(14, 1))
    /\ iafResult.desynchronization > 0
    /\ \E i \in 1..Len(restPSD.frequencies) :
         /\ iafResult.frequency = restPSD.frequencies[i]
         /\ iafResult.power = restPSD.psd[i]
         /\ taskPSD.psd[i] < iafResult.power
         /\ iafResult.desynchronization = restPSD.psd[i] - taskPSD.psd[i]

\* the bins at 5 Hz and 15 Hz drop by 60, the bin at 14 Hz by 30 only: the
\* result is the bin at 14 Hz
C36_Witness ==
  /\ applied
  /\ restPSD.psd[6] = 100 /\ taskPSD.psd[6] = 40
  /\ restPSD.psd[16] = 100 /\ taskPSD.psd[16] = 40
  /\ restPSD.psd[15] = 80 /\ taskPSD.psd[15] = 50
  /\ iafResult # null
  /\ iafResult.frequency = Hz(14 * 512, 512)
  /\ iafResult.desynchronization = 30

\* ------------------------------------------------------ unexpected VLEN
\* One frame that holds, between none or one entry on each side, code 0x80
\* with a VLEN other than 2 or code 0x83 with a VLEN other than 24, the
\* bytes that VLEN announces behind it.

BadVlens ==
  {<<128, 0>>, <<128, 1, 9>>, <<128, 3, 1, 2, 3>>, <<128, 24, 1, 2>>,
   <<131, 0>>, <<131, 2, 1, 2>>, <<131, 23>> \o [n \in 1..23 |-> n],
   <<131, 25>> \o [n \in 1..25 |-> n]}

WithBadVlenOf ==
  [sb \in Splits \X BadVlens |->
     Frame(EncodeFields(sb[1][1]) \o sb[2] \o EncodeFields(sb[1][2]))]

InitVlen == \E sb \in Splits \X BadVlens : InitWith(WithBadVlenOf[sb])

NextVlen == \E k \in 1..Len(input) : Feed(k)

SpecVlen == InitVlen /\ [][NextVlen]_vars

\* the payload decodes to the fields of the entries before the code with
\* the unexpected VLEN, and to nothing of what follows
VlenDecoded ==
  \A sb \in Splits \X BadVlens :
    input = WithBadVlenOf[sb] =>
      DecodePayload(PayloadAt(input, 1)) = FieldsOf(sb[1][1])

\* C37: when 0x80 comes with a VLEN other than 2, or 0x83 with a VLEN other
\* than 24, parsing of the payload stops there: the field is not set, no
\* later field is decoded, and the fields decoded before are kept and
\* emitted
C37_BadVlenStops ==
  \A sb \in Splits \X BadVlens :
    input = WithBadVlenOf[sb] =>
      /\ DecodePayload(PayloadAt(input, 1)) = FieldsOf(sb[1][1])
      /\ (Delivered /\ sb[1][1] # <<>>) =>
           Parsed(emitted) = <<FieldsOf(sb[1][1])>>

\* ------------------------------------------------- buffers of one attempt

\* C38: entering the rest phase empties the rest buffer and entering the
\* task phase empties the task buffer; outside its phase a buffer gets no
\* sample; so the buffers the processing timeout analyses hold what was
\* appended in the most recent rest phase and the most recent task phase
C38_FreshBuffers ==
  [][/\ Enters("rest") => restData' = <<>>
     /\ Enters("task") => taskData' = <<>>
     /\ (phase # "rest" \/ phase' # "rest") =>
          KeptOrCleared(restData, restData')
     /\ (phase # "task" \/ phase' # "task") =>
          KeptOrCleared(taskData, taskData')
     /\ Enters("processing") =>
          timeouts' = Append(timeouts, [restData |-> restData,
                                        taskData |-> taskData])]_vars

\* a second attempt: the task buffer still holds the 525 samples of the
\* attempt before, and the rest buffer only the burst recorded since the
\* rest phase was started again
C38_Witness ==
  /\ phase = "rest"
  /\ Len(taskData) = MaxSamples
  /\ Len(restData) = RawBurst

====
